---- MODULE Spec2Model ----
(***************************************************************************)
(* A model of the StyLua formatting entry point (src/src/lib.rs,           *)
(* format_code) and of the statement formatters                            *)
(* (src/src/formatters/stmt.rs).                                           *)
(*                                                                         *)
(* A syntax tree is modelled by the parts the statement formatters read    *)
(* and write: every token is its symbol with its leading and trailing      *)
(* trivia (whitespace and comments, in order); a condition is its          *)
(* enclosing parenthesis layers around a core of a given printed width; a   *)
(* block is an opaque body that records the shape it was formatted with.   *)
(***************************************************************************)
EXTENDS Integers, Sequences, FiniteSets, TLC

(***************************************************************************)
(* Program constants.                                                      *)
(***************************************************************************)
DefaultColumnWidth == 120
DefaultIndentWidth == 4
\* the literal widths of stmt.rs
IfConditionOffset == 6
IfKeywordWidth == 3
ThenKeywordWidth == 5
ElseIfKeywordWidth == 7
WhileKeywordWidth == 6
DoKeywordWidth == 3
UntilKeywordWidth == 6

(***************************************************************************)
(* Bounds of the model.                                                    *)
(***************************************************************************)
\* deepest nesting of parenthesis layers around a condition
MaxParenDepth == 2
\* a narrow column width a caller may configure
NarrowColumnWidth == 20
\* a narrow indent width a caller may configure
NarrowIndentWidth == 2
\* printed widths of the condition cores that are tried
ShortWidth == 1
MidWidth == 12
LongWidth == 113
\* deepest block nesting of the statement that is formatted
MaxLevel == 1
\* most elseif arms of a conditional
MaxArms == 1
\* most elseif arms of a conditional handed to format_if directly
MaxChain == 2

(***************************************************************************)
(* Trivia, tokens.                                                         *)
(***************************************************************************)
\* one trivia or token item of the printed text
Item(k, s, v, line) == [k |-> k, s |-> s, v |-> v, line |-> line]
NewlineTrivia == Item("nl", "", 0, FALSE)
SpaceTrivia == Item("sp", "", 0, FALSE)
IndentTrivia(n) == Item("indent", "", n, FALSE)
\* a comment: its identity v, and whether it is a single-line comment (-- ...),
\* which extends to the end of its line, or a block comment (--[[ ... ]])
Comment(v, line) == Item("cmt", "", v, line)
TokItem(s) == Item("tok", s, 0, FALSE)

IsComment(t) == t.k = "cmt"
CommentsOf(trivia) == SelectSeq(trivia, IsComment)

Token(sym, lead, trail) == [sym |-> sym, lead |-> lead, trail |-> trail]

RECURSIVE Flatten(_)
Flatten(seqs) == IF seqs = <<>> THEN <<>> ELSE Head(seqs) \o Flatten(Tail(seqs))

RECURSIVE SeqsOver(_, _)
\* all sequences over S of length at most n
SeqsOver(S, n) ==
  IF n = 0 THEN {<<>>}
  ELSE LET shorter == SeqsOver(S, n - 1)
       IN shorter \cup {<<x>> \o s : x \in S, s \in {t \in shorter : Len(t) = n - 1}}

(***************************************************************************)
(* Config and Shape.                                                       *)
(***************************************************************************)
ConfigDefault ==
  [column_width |-> DefaultColumnWidth, line_endings |-> "Unix",
   indent_type |-> "Tabs", indent_width |-> DefaultIndentWidth,
   quote_style |-> "AutoPreferDouble", no_call_parentheses |-> FALSE,
   table_sep |-> "Comma", extra_sep_at_table_end |-> FALSE,
   extra_spaces_inside_table |-> TRUE, extra_space_in_empty_table |-> FALSE]

\* Config::new
Config_new == ConfigDefault

\* the values of the enums of lib.rs
IndentTypes == {"Tabs", "Spaces"}
LineEndingsKinds == {"Unix", "Windows"}
TableSeparatorsKinds == {"Comma", "SemiColon"}
QuoteStyles == {"AutoPreferDouble", "AutoPreferSingle", "ForceDouble", "ForceSingle"}

with_column_width(self, column_width) == [self EXCEPT !.column_width = column_width]
with_line_endings(self, line_endings) == [self EXCEPT !.line_endings = line_endings]
with_indent_type(self, indent_type) == [self EXCEPT !.indent_type = indent_type]
with_indent_width(self, indent_width) == [self EXCEPT !.indent_width = indent_width]
with_quote_style(self, quote_style) == [self EXCEPT !.quote_style = quote_style]
with_no_call_parentheses(self, no_call_parentheses) ==
  [self EXCEPT !.no_call_parentheses = no_call_parentheses]
\* with_table_sep filling the other fields from the defaults
with_table_sep_from_default(self, table_sep) == [ConfigDefault EXCEPT !.table_sep = table_sep]
with_table_sep(self, table_sep) == [self EXCEPT !.table_sep = table_sep]
with_extra_sep_at_table_end(self, extra_sep_at_table_end) ==
  [self EXCEPT !.extra_sep_at_table_end = extra_sep_at_table_end]
with_extra_spaces_inside_table(self, extra_spaces_inside_table) ==
  [self EXCEPT !.extra_spaces_inside_table = extra_spaces_inside_table]
with_extra_space_in_empty_table(self, extra_space_in_empty_table) ==
  [self EXCEPT !.extra_space_in_empty_table = extra_space_in_empty_table]

\* Shape: block indent level, additional (hanging) indent level, used width
ShapeNew(level) == [indent_level |-> level, additional_indent |-> 0, offset |-> 0]
ShapeReset(shape) == [shape EXCEPT !.offset = 0]
ShapeAdd(shape, n) == [shape EXCEPT !.offset = @ + n]
increment_block_indent(shape) == [shape EXCEPT !.indent_level = @ + 1]
increment_additional_indent(shape) == [shape EXCEPT !.additional_indent = @ + 1]
IndentLevels(shape) == shape.indent_level + shape.additional_indent
over_budget(cfg, shape) ==
  IndentLevels(shape) * cfg.indent_width + shape.offset > cfg.column_width

create_indent_trivia(shape) == IndentTrivia(IndentLevels(shape))
create_newline_trivia == NewlineTrivia

(***************************************************************************)
(* Trivia transforms.                                                      *)
(***************************************************************************)
update_leading_trivia(tok, append) == [tok EXCEPT !.lead = @ \o append]
update_trailing_trivia(tok, append) == [tok EXCEPT !.trail = @ \o append]
update_trivia(tok, lead, trail) ==
  update_trailing_trivia(update_leading_trivia(tok, lead), trail)

\* fmt_symbol!: the wanted symbol with its own whitespace, wrapped by the
\* comments of the current token
fmt_symbol(tok, sym, leadWs, trailWs) ==
  Token(sym, CommentsOf(tok.lead) \o leadWs, trailWs \o CommentsOf(tok.trail))

RECURSIVE OwnLines(_, _)
\* each leading comment on a line of its own, one level deeper
OwnLines(cmts, shape) ==
  IF cmts = <<>> THEN <<>>
  ELSE <<create_indent_trivia(increment_block_indent(shape)), Head(cmts), NewlineTrivia>>
         \o OwnLines(Tail(cmts), shape)

format_end_token(tok, shape) ==
  Token(tok.sym, OwnLines(CommentsOf(tok.lead), shape), CommentsOf(tok.trail))

(***************************************************************************)
(* Expressions: wraps are the enclosing layers, outermost first.  A layer  *)
(* "P" is Expression::Parentheses, whose ContainedSpan holds the two       *)
(* parenthesis tokens and the comments on them; a layer "V" is             *)
(* Expression::Value holding Value::ParenthesesExpression, with no tokens  *)
(* of its own.  The other layers are the nodes an expression can lie in    *)
(* (see stmt_block below).  The core "Function" is an anonymous function,  *)
(* whose body is the one block of the field body.                          *)
(***************************************************************************)
Layer(t, cmts) == [t |-> t, cmts |-> cmts]
Expr(wraps, core, width, cmts) ==
  [wraps |-> wraps, core |-> core, width |-> width, cmts |-> cmts,
   lead |-> <<>>, trail |-> <<>>, fmt |-> <<>>, body |-> <<>>]

IsParenLayer(l) == l.t = "P"
ParenCount(e) == Len(SelectSeq(e.wraps, IsParenLayer))

RECURSIVE remove_condition_parentheses(_)
remove_condition_parentheses(expression) ==
  IF expression.wraps = <<>> THEN expression
  ELSE IF Head(expression.wraps).t = "P"
       THEN [expression EXCEPT !.wraps = Tail(@)]
       ELSE IF Head(expression.wraps).t = "V"
            THEN remove_condition_parentheses([expression EXCEPT !.wraps = Tail(@)])
            ELSE expression

\* strip_trivia(&expression).to_string().len()
StrippedLen(e) == e.width + 2 * ParenCount(e)

\* every comment of an expression, in source order
ExprComments(e) ==
  Flatten([i \in 1..Len(e.wraps) |-> e.wraps[i].cmts]) \o e.cmts
     \o CommentsOf(e.lead) \o CommentsOf(e.trail)

contains_comments(e) == ExprComments(e) # <<>>
expression_contains_inline_comments(e) == ExprComments(e) # <<>>

format_expression(e, shape) ==
  [e EXCEPT !.lead = <<>>, !.trail = <<>>,
            !.fmt = <<[mode |-> "single", shape |-> shape]>>]

hang_expression_trailing_newline(e, shape) ==
  [e EXCEPT !.lead = <<>>, !.trail = <<NewlineTrivia>>,
            !.fmt = <<[mode |-> "hang", shape |-> shape]>>]

(***************************************************************************)
(* Blocks.                                                                 *)
(***************************************************************************)
Block(id) == [id |-> id, fmt |-> <<>>]
format_block(block, shape) == [block EXCEPT !.fmt = <<shape>>]


(***************************************************************************)
(* Statement formatters of stmt.rs.  A statement is                        *)
(*   [kind, toks, condition, names, expressions, step, block, else_if,     *)
(*    else_block, values, targets]                                         *)
(* where toks maps the names of the statement's own tokens to tokens, an   *)
(* optional token being in the domain or not, and an optional node is a    *)
(* sequence of length 0 or 1.  A formatter yields [tag, node]: tag "ok"     *)
(* with the formatted node, or tag "panic" when the formatter aborts.       *)
(***************************************************************************)
token_contains_trailing_comments(tok) == CommentsOf(tok.trail) # <<>>
token_contains_leading_comments(tok) == CommentsOf(tok.lead) # <<>>

Has(node, name) == name \in DOMAIN node.toks
Ok(node) == [tag |-> "ok", node |-> node]
Panic(node) == [tag |-> "panic", node |-> node]

ExprLead(e, append) == [e EXCEPT !.lead = @ \o append]
ExprTrail(e, append) == [e EXCEPT !.trail = @ \o append]

\* format_punctuated_buffer: the formatted list and the comments collected
\* from it
PunctuatedFormatted(list, shape) == [list EXCEPT !.cmts = <<>>, !.fmt = <<shape>>]
PunctuatedComments(list) == CommentsOf(list.cmts)

\* format_do_block with the end token given the trailing newline only
format_do_block_end_unindented(cfg, do_block, shape) ==
  LET leading_trivia == <<create_indent_trivia(shape)>>
      trailing_trivia == <<create_newline_trivia>>
      do_token == update_trivia(fmt_symbol(do_block.toks.do_token, "do", <<>>, <<>>),
                                leading_trivia, trailing_trivia)
      block_shape == increment_block_indent(ShapeReset(shape))
      block == format_block(do_block.block, block_shape)
      end_token == update_trailing_trivia(format_end_token(do_block.toks.end_token, shape),
                                          trailing_trivia)
  IN Ok([do_block EXCEPT !.toks.do_token = do_token, !.block = block,
                         !.toks.end_token = end_token])

format_do_block(cfg, do_block, shape) ==
  LET leading_trivia == <<create_indent_trivia(shape)>>
      trailing_trivia == <<create_newline_trivia>>
      do_token == update_trivia(fmt_symbol(do_block.toks.do_token, "do", <<>>, <<>>),
                                leading_trivia, trailing_trivia)
      block_shape == increment_block_indent(ShapeReset(shape))
      block == format_block(do_block.block, block_shape)
      end_token == update_trivia(format_end_token(do_block.toks.end_token, shape),
                                 leading_trivia, trailing_trivia)
  IN Ok([do_block EXCEPT !.toks.do_token = do_token, !.block = block,
                         !.toks.end_token = end_token])

\* format_generic_for with the end token given the newline buffer after it
\* was emptied into the comments buffer
format_generic_for_drained(cfg, generic_for, shape) ==
  LET leading_trivia == <<create_indent_trivia(shape)>>
      trailing_trivia == <<create_newline_trivia>>
      for_token == update_leading_trivia(
                     fmt_symbol(generic_for.toks.for_token, "for", <<>>, <<SpaceTrivia>>),
                     leading_trivia)
      in_token == fmt_symbol(generic_for.toks.in_token, "in", <<SpaceTrivia>>, <<SpaceTrivia>>)
      comments_buf ==
        (PunctuatedComments(generic_for.names) \o PunctuatedComments(generic_for.expressions))
          \o trailing_trivia
      do_token == update_trailing_trivia(
                    fmt_symbol(generic_for.toks.do_token, "do", <<SpaceTrivia>>, <<>>),
                    comments_buf)
      block == format_block(generic_for.block, increment_block_indent(ShapeReset(shape)))
      end_token == update_trivia(format_end_token(generic_for.toks.end_token, shape),
                                 leading_trivia, <<>>)
  IN Ok([generic_for EXCEPT !.toks.for_token = for_token,
                            !.names = PunctuatedFormatted(generic_for.names, shape),
                            !.toks.in_token = in_token,
                            !.expressions = PunctuatedFormatted(generic_for.expressions, shape),
                            !.toks.do_token = do_token, !.block = block,
                            !.toks.end_token = end_token])

format_generic_for(cfg, generic_for, shape) ==
  LET leading_trivia == <<create_indent_trivia(shape)>>
      trailing_trivia == <<create_newline_trivia>>
      for_token == update_leading_trivia(
                     fmt_symbol(generic_for.toks.for_token, "for", <<>>, <<SpaceTrivia>>),
                     leading_trivia)
      formatted_names == PunctuatedFormatted(generic_for.names, shape)
      names_comments_buf == PunctuatedComments(generic_for.names)
      in_token == fmt_symbol(generic_for.toks.in_token, "in", <<SpaceTrivia>>, <<SpaceTrivia>>)
      formatted_expr_list == PunctuatedFormatted(generic_for.expressions, shape)
      expr_comments_buf == PunctuatedComments(generic_for.expressions)
      comments_buf == (names_comments_buf \o expr_comments_buf) \o trailing_trivia
      do_token == update_trailing_trivia(
                    fmt_symbol(generic_for.toks.do_token, "do", <<SpaceTrivia>>, <<>>),
                    comments_buf)
      block_shape == increment_block_indent(ShapeReset(shape))
      block == format_block(generic_for.block, block_shape)
      end_token == update_trivia(format_end_token(generic_for.toks.end_token, shape),
                                 leading_trivia, <<create_newline_trivia>>)
  IN Ok([generic_for EXCEPT !.toks.for_token = for_token, !.names = formatted_names,
                            !.toks.in_token = in_token,
                            !.expressions = formatted_expr_list,
                            !.toks.do_token = do_token, !.block = block,
                            !.toks.end_token = end_token])

\* stmt.rs 136, 144-152: whether the condition of an elseif arm must hang
else_if_require_multiline_expression(cfg, else_if_node, shape) ==
  LET condition == remove_condition_parentheses(else_if_node.condition)
      singleline_condition == format_expression(condition, ShapeAdd(shape, ElseIfKeywordWidth))
      singleline_shape ==
        ShapeAdd(shape, ElseIfKeywordWidth + ThenKeywordWidth + StrippedLen(singleline_condition))
  IN \/ over_budget(cfg, singleline_shape)
     \/ token_contains_trailing_comments(else_if_node.toks.else_if_token)
     \/ token_contains_leading_comments(else_if_node.toks.then_token)
     \/ contains_comments(condition)

format_else_if(cfg, else_if_node, shape0) ==
  LET shape == ShapeReset(shape0)
      leading_trivia == <<create_indent_trivia(shape)>>
      trailing_trivia == <<create_newline_trivia>>
      condition == remove_condition_parentheses(else_if_node.condition)
      elseif_token == format_end_token(else_if_node.toks.else_if_token, shape)
      singleline_condition == format_expression(condition, ShapeAdd(shape, ElseIfKeywordWidth))
      singleline_then_token ==
        fmt_symbol(else_if_node.toks.then_token, "then", <<SpaceTrivia>>, <<>>)
      require_multiline_expression ==
        else_if_require_multiline_expression(cfg, else_if_node, shape)
      elseif_token2 ==
        update_leading_trivia(
          IF require_multiline_expression
          THEN update_trailing_trivia(elseif_token, <<create_newline_trivia>>)
          ELSE update_trailing_trivia(elseif_token, <<SpaceTrivia>>),
          leading_trivia)
      hang_shape == increment_additional_indent(ShapeReset(shape))
      condition2 ==
        IF require_multiline_expression
        THEN ExprLead(hang_expression_trailing_newline(condition, hang_shape),
                      <<create_indent_trivia(hang_shape)>>)
        ELSE singleline_condition
      then_token ==
        update_trailing_trivia(
          IF require_multiline_expression
          THEN update_leading_trivia(
                 format_end_token(else_if_node.toks.then_token, shape), leading_trivia)
          ELSE singleline_then_token,
          trailing_trivia)
      block_shape == increment_block_indent(ShapeReset(shape))
      block == format_block(else_if_node.block, block_shape)
  IN [else_if_node EXCEPT !.toks.else_if_token = elseif_token2,
                          !.condition = condition2,
                          !.toks.then_token = then_token, !.block = block]

\* if_require_multiline_expression without the test of the then token's
\* leading comments
if_require_multiline_expression_no_then(cfg, if_node, shape) ==
  LET condition == remove_condition_parentheses(if_node.condition)
      singleline_shape ==
        ShapeAdd(shape, IfKeywordWidth + ThenKeywordWidth + StrippedLen(condition))
  IN \/ over_budget(cfg, singleline_shape)
     \/ token_contains_trailing_comments(if_node.toks.if_token)
     \/ contains_comments(condition)

\* stmt.rs 203, 206-214: whether the condition of an if must hang
if_require_multiline_expression(cfg, if_node, shape) ==
  LET condition == remove_condition_parentheses(if_node.condition)
      singleline_condition == format_expression(condition, ShapeAdd(shape, IfConditionOffset))
      singleline_shape ==
        ShapeAdd(shape, IfKeywordWidth + ThenKeywordWidth + StrippedLen(singleline_condition))
  IN \/ over_budget(cfg, singleline_shape)
     \/ token_contains_trailing_comments(if_node.toks.if_token)
     \/ token_contains_leading_comments(if_node.toks.then_token)
     \/ contains_comments(condition)

\* format_if with an unpaired else token or else block let through: the
\* conditional comes back with the else arm as it was
format_if_accepts_unpaired(cfg, if_node, shape) ==
  LET leading_trivia == <<create_indent_trivia(shape)>>
      trailing_trivia == <<create_newline_trivia>>
      condition == remove_condition_parentheses(if_node.condition)
      require_multiline_expression == if_require_multiline_expression(cfg, if_node, shape)
      if_token ==
        update_leading_trivia(
          IF require_multiline_expression
          THEN update_trailing_trivia(fmt_symbol(if_node.toks.if_token, "if", <<>>, <<>>),
                                      <<create_newline_trivia>>)
          ELSE fmt_symbol(if_node.toks.if_token, "if", <<>>, <<SpaceTrivia>>),
          leading_trivia)
      hang_shape == increment_additional_indent(ShapeReset(shape))
      condition2 ==
        IF require_multiline_expression
        THEN ExprLead(hang_expression_trailing_newline(condition, hang_shape),
                      <<create_indent_trivia(hang_shape)>>)
        ELSE format_expression(condition, ShapeAdd(shape, IfConditionOffset))
      then_token ==
        update_trailing_trivia(
          IF require_multiline_expression
          THEN update_leading_trivia(format_end_token(if_node.toks.then_token, shape),
                                     leading_trivia)
          ELSE fmt_symbol(if_node.toks.then_token, "then", <<SpaceTrivia>>, <<>>),
          trailing_trivia)
      block == format_block(if_node.block, increment_block_indent(ShapeReset(shape)))
      end_token == update_trivia(format_end_token(if_node.toks.end_token, shape),
                                 leading_trivia, trailing_trivia)
      else_if == [i \in 1..Len(if_node.else_if) |->
                    format_else_if(cfg, if_node.else_if[i], shape)]
      formatted ==
        [if_node EXCEPT !.toks.if_token = if_token, !.condition = condition2,
                        !.toks.then_token = then_token, !.block = block,
                        !.else_if = else_if, !.toks.end_token = end_token]
  IN IF Has(if_node, "else_token") /\ if_node.else_block # <<>>
     THEN Ok([formatted EXCEPT
                !.toks.else_token =
                   update_trivia(format_end_token(if_node.toks.else_token, shape),
                                 leading_trivia, trailing_trivia),
                !.else_block =
                   <<format_block(if_node.else_block[1],
                                  increment_block_indent(ShapeReset(shape)))>>])
     ELSE Ok(formatted)

format_if(cfg, if_node, shape) ==
  LET leading_trivia == <<create_indent_trivia(shape)>>
      trailing_trivia == <<create_newline_trivia>>
      condition == remove_condition_parentheses(if_node.condition)
      singleline_if_token == fmt_symbol(if_node.toks.if_token, "if", <<>>, <<SpaceTrivia>>)
      singleline_condition == format_expression(condition, ShapeAdd(shape, IfConditionOffset))
      singleline_then_token == fmt_symbol(if_node.toks.then_token, "then", <<SpaceTrivia>>, <<>>)
      require_multiline_expression == if_require_multiline_expression(cfg, if_node, shape)
      if_token ==
        update_leading_trivia(
          IF require_multiline_expression
          THEN update_trailing_trivia(fmt_symbol(if_node.toks.if_token, "if", <<>>, <<>>),
                                      <<create_newline_trivia>>)
          ELSE singleline_if_token,
          leading_trivia)
      hang_shape == increment_additional_indent(ShapeReset(shape))
      condition2 ==
        IF require_multiline_expression
        THEN ExprLead(hang_expression_trailing_newline(condition, hang_shape),
                      <<create_indent_trivia(hang_shape)>>)
        ELSE singleline_condition
      then_token ==
        update_trailing_trivia(
          IF require_multiline_expression
          THEN update_leading_trivia(format_end_token(if_node.toks.then_token, shape),
                                     leading_trivia)
          ELSE singleline_then_token,
          trailing_trivia)
      block_shape == increment_block_indent(ShapeReset(shape))
      block == format_block(if_node.block, block_shape)
      end_token == update_trivia(format_end_token(if_node.toks.end_token, shape),
                                 leading_trivia, trailing_trivia)
      else_if == [i \in 1..Len(if_node.else_if) |->
                    format_else_if(cfg, if_node.else_if[i], shape)]
      formatted ==
        [if_node EXCEPT !.toks.if_token = if_token, !.condition = condition2,
                        !.toks.then_token = then_token, !.block = block,
                        !.else_if = else_if, !.toks.end_token = end_token]
  IN IF Has(if_node, "else_token") /\ if_node.else_block # <<>>
     THEN LET else_token ==
                update_trivia(format_end_token(if_node.toks.else_token, shape),
                              leading_trivia, trailing_trivia)
              else_block_shape == increment_block_indent(ShapeReset(shape))
              else_block == format_block(if_node.else_block[1], else_block_shape)
          IN Ok([formatted EXCEPT !.toks.else_token = else_token,
                                  !.else_block = <<else_block>>])
     ELSE IF ~Has(if_node, "else_token") /\ if_node.else_block = <<>>
          THEN Ok(formatted)
          ELSE Panic(if_node)


format_numeric_for(cfg, numeric_for, shape) ==
  LET leading_trivia == <<create_indent_trivia(shape)>>
      trailing_trivia == <<create_newline_trivia>>
      for_token == update_leading_trivia(
                     fmt_symbol(numeric_for.toks.for_token, "for", <<>>, <<SpaceTrivia>>),
                     leading_trivia)
      equal_token ==
        fmt_symbol(numeric_for.toks.equal_token, "=", <<SpaceTrivia>>, <<SpaceTrivia>>)
      do_token == update_trailing_trivia(
                    fmt_symbol(numeric_for.toks.do_token, "do", <<SpaceTrivia>>, <<>>),
                    trailing_trivia)
      block_shape == increment_block_indent(ShapeReset(shape))
      block == format_block(numeric_for.block, block_shape)
      end_token == update_trivia(format_end_token(numeric_for.toks.end_token, shape),
                                 leading_trivia, trailing_trivia)
      formatted ==
        [numeric_for EXCEPT !.toks.for_token = for_token,
                            !.toks.equal_token = equal_token,
                            !.toks.do_token = do_token, !.block = block,
                            !.toks.end_token = end_token]
  IN IF Has(numeric_for, "end_step_comma") /\ numeric_for.step # <<>>
     THEN Ok([formatted EXCEPT
                !.toks.end_step_comma =
                   fmt_symbol(numeric_for.toks.end_step_comma, ",", <<>>, <<SpaceTrivia>>),
                !.step = <<format_expression(numeric_for.step[1], shape)>>])
     ELSE IF ~Has(numeric_for, "end_step_comma") /\ numeric_for.step = <<>>
          THEN Ok(formatted)
          ELSE Panic(numeric_for)

\* stmt.rs 359-364: whether the condition of a repeat-until must hang
repeat_require_multiline_expression(cfg, repeat_block, shape) ==
  LET condition == remove_condition_parentheses(repeat_block.condition)
      singleline_shape == ShapeAdd(shape, UntilKeywordWidth + StrippedLen(condition))
  IN \/ over_budget(cfg, singleline_shape)
     \/ expression_contains_inline_comments(condition)

format_repeat_block(cfg, repeat_block, shape0) ==
  LET leading_trivia == <<create_indent_trivia(shape0)>>
      trailing_trivia == <<create_newline_trivia>>
      repeat_token ==
        update_trivia(fmt_symbol(repeat_block.toks.repeat_token, "repeat", <<>>, <<>>),
                      leading_trivia, trailing_trivia)
      block_shape == increment_block_indent(ShapeReset(shape0))
      block == format_block(repeat_block.block, block_shape)
      until_token ==
        update_leading_trivia(
          fmt_symbol(repeat_block.toks.until_token, "until", <<>>, <<SpaceTrivia>>),
          leading_trivia)
      condition == remove_condition_parentheses(repeat_block.condition)
      require_multiline_expression ==
        repeat_require_multiline_expression(cfg, repeat_block, shape0)
      shape == ShapeAdd(shape0, UntilKeywordWidth)
      until ==
        IF require_multiline_expression
        THEN hang_expression_trailing_newline(condition, increment_additional_indent(shape))
        ELSE ExprTrail(format_expression(condition, shape), trailing_trivia)
  IN Ok([repeat_block EXCEPT !.toks.repeat_token = repeat_token, !.block = block,
                             !.toks.until_token = until_token, !.condition = until])

\* stmt.rs 391, 394-402: whether the condition of a while must hang
while_require_multiline_expression(cfg, while_block, shape) ==
  LET condition == remove_condition_parentheses(while_block.condition)
      singleline_condition == format_expression(condition, ShapeAdd(shape, WhileKeywordWidth))
      singleline_shape ==
        ShapeAdd(shape, WhileKeywordWidth + DoKeywordWidth + StrippedLen(singleline_condition))
  IN \/ over_budget(cfg, singleline_shape)
     \/ token_contains_trailing_comments(while_block.toks.while_token)
     \/ token_contains_leading_comments(while_block.toks.do_token)
     \/ contains_comments(condition)

\* format_while_block with the hung while token built from the single-line
\* token: the space after while stays in front of the newline
format_while_block_keeps_space(cfg, while_block, shape) ==
  LET leading_trivia == <<create_indent_trivia(shape)>>
      trailing_trivia == <<create_newline_trivia>>
      condition == remove_condition_parentheses(while_block.condition)
      singleline_while_token ==
        fmt_symbol(while_block.toks.while_token, "while", <<>>, <<SpaceTrivia>>)
      singleline_condition == format_expression(condition, ShapeAdd(shape, WhileKeywordWidth))
      singleline_do_token == fmt_symbol(while_block.toks.do_token, "do", <<SpaceTrivia>>, <<>>)
      require_multiline_expression ==
        while_require_multiline_expression(cfg, while_block, shape)
      while_token ==
        update_leading_trivia(
          IF require_multiline_expression
          THEN update_trailing_trivia(singleline_while_token, <<create_newline_trivia>>)
          ELSE singleline_while_token,
          leading_trivia)
      hang_shape == increment_additional_indent(ShapeReset(shape))
      condition2 ==
        IF require_multiline_expression
        THEN ExprLead(hang_expression_trailing_newline(condition, hang_shape),
                      <<create_indent_trivia(hang_shape)>>)
        ELSE singleline_condition
      do_token ==
        update_trailing_trivia(
          IF require_multiline_expression
          THEN update_leading_trivia(format_end_token(while_block.toks.do_token, shape),
                                     leading_trivia)
          ELSE singleline_do_token,
          trailing_trivia)
      block_shape == increment_block_indent(ShapeReset(shape))
      block == format_block(while_block.block, block_shape)
      end_token == update_trivia(format_end_token(while_block.toks.end_token, shape),
                                 leading_trivia, trailing_trivia)
  IN Ok([while_block EXCEPT !.toks.while_token = while_token, !.condition = condition2,
                            !.toks.do_token = do_token, !.block = block,
                            !.toks.end_token = end_token])

format_while_block(cfg, while_block, shape) ==
  LET leading_trivia == <<create_indent_trivia(shape)>>
      trailing_trivia == <<create_newline_trivia>>
      condition == remove_condition_parentheses(while_block.condition)
      singleline_while_token ==
        fmt_symbol(while_block.toks.while_token, "while", <<>>, <<SpaceTrivia>>)
      singleline_condition == format_expression(condition, ShapeAdd(shape, WhileKeywordWidth))
      singleline_do_token == fmt_symbol(while_block.toks.do_token, "do", <<SpaceTrivia>>, <<>>)
      require_multiline_expression ==
        while_require_multiline_expression(cfg, while_block, shape)
      while_token ==
        update_leading_trivia(
          IF require_multiline_expression
          THEN update_trailing_trivia(
                 fmt_symbol(while_block.toks.while_token, "while", <<>>, <<>>),
                 <<create_newline_trivia>>)
          ELSE singleline_while_token,
          leading_trivia)
      hang_shape == increment_additional_indent(ShapeReset(shape))
      condition2 ==
        IF require_multiline_expression
        THEN ExprLead(hang_expression_trailing_newline(condition, hang_shape),
                      <<create_indent_trivia(hang_shape)>>)
        ELSE singleline_condition
      do_token ==
        update_trailing_trivia(
          IF require_multiline_expression
          THEN update_leading_trivia(format_end_token(while_block.toks.do_token, shape),
                                     leading_trivia)
          ELSE singleline_do_token,
          trailing_trivia)
      block_shape == increment_block_indent(ShapeReset(shape))
      block == format_block(while_block.block, block_shape)
      end_token == update_trivia(format_end_token(while_block.toks.end_token, shape),
                                 leading_trivia, trailing_trivia)
  IN Ok([while_block EXCEPT !.toks.while_token = while_token, !.condition = condition2,
                            !.toks.do_token = do_token, !.block = block,
                            !.toks.end_token = end_token])

\* the formatters of the other modules (assignment, functions, luau, lua52):
\* the statement's one token gets the statement's indentation and a newline
FormatOther(cfg, node, shape) ==
  Ok([node EXCEPT !.toks.stmt_token =
        update_trivia(Token(@.sym, CommentsOf(@.lead), CommentsOf(@.trail)),
                      <<create_indent_trivia(shape)>>, <<create_newline_trivia>>)])

format_function_call_stmt(cfg, function_call, shape) ==
  FormatOther(cfg, function_call, shape)

(***************************************************************************)
(* stmt_block::format_stmt_block: the statement's nested blocks only.      *)
(***************************************************************************)
BaseKinds ==
  {"Assignment", "Do", "FunctionCall", "FunctionDeclaration", "GenericFor", "If",
   "LocalAssignment", "LocalFunction", "NumericFor", "Repeat", "While"}
LuauKinds == {"CompoundAssignment", "ExportedTypeDeclaration", "TypeDeclaration"}
Lua52Kinds == {"Goto", "Label"}
AllKinds == BaseKinds \cup LuauKinds \cup Lua52Kinds

\* the arms compiled into the two matches over Stmt under a set of features
DispatchKinds(features) ==
  BaseKinds \cup (IF "luau" \in features THEN LuauKinds ELSE {})
            \cup (IF "lua52" \in features THEN Lua52Kinds ELSE {})

\* The layers an expression can lie in, by the node and the place in it:
\*   Unary, Binary            Expression::UnaryOperator, ::BinaryOperator
\*   OtherExpression          an Expression of another kind
\*   VarIndex                 Value::Var, the expression in an index of it
\*   OtherValue               a Value of another kind
\*   CallPrefix               FunctionCall, Prefix::Expression
\*   CallOtherPrefix          FunctionCall, a Prefix of another kind
\*   CallArgs, CallMethodArgs FunctionArgs::Parentheses of an AnonymousCall,
\*                            of a MethodCall
\*   CallTableArgs            FunctionArgs::TableConstructor, a field of it
\*   CallOtherArgs            FunctionArgs of another kind
\*   CallOtherCall            a Call of another kind
\*   CallIndex                Suffix::Index, Index::Brackets
\*   CallOtherIndex           an Index of another kind
\*   CallOtherSuffix          a Suffix of another kind
\*   TableField               Value::TableConstructor, a key or value of a field
\*   TableOtherField          a Field of another kind
CallLayers ==
  {"CallPrefix", "CallOtherPrefix", "CallArgs", "CallMethodArgs", "CallTableArgs",
   "CallOtherArgs", "CallOtherCall", "CallIndex", "CallOtherIndex", "CallOtherSuffix"}
TableLayers == {"TableField", "TableOtherField"}
ExpressionLayers == {"P", "V", "Unary", "Binary", "OtherExpression", "VarIndex", "OtherValue"}
LayerKinds == ExpressionLayers \cup CallLayers \cup TableLayers

RECURSIVE format_expression_block(_, _)
\* the node with what the descent made of the expression inside it
Descend(e, shape) ==
  LET r == format_expression_block([e EXCEPT !.wraps = Tail(@)], shape)
  IN [tag |-> r.tag, node |-> [r.node EXCEPT !.wraps = <<Head(e.wraps)>> \o @]]

format_table_constructor_block(table_constructor, shape) ==
  IF Head(table_constructor.wraps).t = "TableOtherField"
  THEN Panic(table_constructor)
  ELSE Descend(table_constructor, shape)

format_function_args_block(function_args, shape) ==
  LET t == Head(function_args.wraps).t
  IN IF t \in {"CallArgs", "CallMethodArgs"} THEN Descend(function_args, shape)
     ELSE IF t = "CallTableArgs" THEN format_table_constructor_block(function_args, shape)
     ELSE Ok(function_args)

format_function_call_block(function_call, shape) ==
  LET t == Head(function_call.wraps).t
  IN IF t = "CallPrefix" THEN Descend(function_call, shape)
     ELSE IF t \in {"CallOtherPrefix", "CallOtherCall", "CallOtherSuffix"}
     THEN Panic(function_call)
     ELSE IF t \in {"CallArgs", "CallMethodArgs", "CallTableArgs", "CallOtherArgs"}
     THEN format_function_args_block(function_call, shape)
     ELSE IF t = "CallIndex" THEN Descend(function_call, shape)
     ELSE Ok(function_call)

\* format_expression_block with an Expression of an unknown kind handed back
\* as it is
format_expression_block_keeps_unknown(expression, shape) ==
  IF expression.wraps = <<>>
  THEN Ok([expression EXCEPT !.body = [i \in DOMAIN @ |-> format_block(@[i], shape)]])
  ELSE LET t == Head(expression.wraps).t
       IN IF t \in {"Binary", "P", "Unary", "V"} THEN Descend(expression, shape)
          ELSE IF t \in CallLayers THEN format_function_call_block(expression, shape)
          ELSE IF t \in TableLayers THEN format_table_constructor_block(expression, shape)
          ELSE Ok(expression)

format_expression_block(expression, shape) ==
  IF expression.wraps = <<>>
  THEN \* Value::Function: the body; a value of another kind: unchanged
       Ok([expression EXCEPT !.body = [i \in DOMAIN @ |-> format_block(@[i], shape)]])
  ELSE LET t == Head(expression.wraps).t
       IN IF t \in {"Binary", "P", "Unary", "V"} THEN Descend(expression, shape)
          ELSE IF t \in CallLayers THEN format_function_call_block(expression, shape)
          ELSE IF t \in TableLayers THEN format_table_constructor_block(expression, shape)
          ELSE IF t = "OtherExpression" THEN Panic(expression)
          ELSE Ok(expression)

\* the descent over a list of expressions: it aborts when one of them does
ExpressionsBlock(list, shape) ==
  LET rs == [i \in DOMAIN list |-> format_expression_block(list[i], shape)]
  IN [tag |-> IF \E i \in DOMAIN rs : rs[i].tag = "panic" THEN "panic" ELSE "ok",
      nodes |-> [i \in DOMAIN rs |-> rs[i].node]]

\* the kinds whose nested block field format_stmt_block formats
BlockKinds ==
  {"Do", "FunctionDeclaration", "GenericFor", "If", "LocalFunction", "NumericFor",
   "Repeat", "While"}
\* the kinds whose expressions (the values of an assignment, the right-hand
\* side of a compound assignment, the call of a call statement)
\* format_stmt_block descends into
ExpressionKinds == {"Assignment", "CompoundAssignment", "FunctionCall", "LocalAssignment"}

\* the arms of the match of format_stmt_block
StmtBlockArms(stmt, block_shape) ==
  LET values == ExpressionsBlock(stmt.values, block_shape)
  IN IF stmt.kind = "If"
     THEN Ok([stmt EXCEPT
                !.block = format_block(@, block_shape),
                !.else_if = [i \in 1..Len(@) |->
                               [@[i] EXCEPT !.block = format_block(@, block_shape)]],
                !.else_block = [i \in 1..Len(@) |-> format_block(@[i], block_shape)]])
     ELSE IF stmt.kind \in BlockKinds
     THEN Ok([stmt EXCEPT !.block = format_block(@, block_shape)])
     ELSE IF stmt.kind \in ExpressionKinds
     THEN (IF values.tag = "panic" THEN Panic(stmt)
           ELSE Ok([stmt EXCEPT !.values = values.nodes]))
     ELSE Ok(stmt)

\* format_stmt_block that also strips the parentheses of the condition
format_stmt_block_strips(features, stmt, shape) ==
  LET r == StmtBlockArms(stmt, increment_block_indent(ShapeReset(shape)))
  IN IF stmt.kind \notin DispatchKinds(features) THEN Panic(stmt)
     ELSE [r EXCEPT !.node.condition = remove_condition_parentheses(@)]

format_stmt_block(features, stmt, shape) ==
  LET block_shape == increment_block_indent(ShapeReset(shape))
  IN IF stmt.kind \notin DispatchKinds(features) THEN Panic(stmt)
     ELSE StmtBlockArms(stmt, block_shape)

(***************************************************************************)
(* format_stmt: the dispatch.  The result also names the formatter that    *)
(* ran.                                                                    *)
(***************************************************************************)
Formatter(kind) ==
  CASE kind = "Assignment" -> "format_assignment"
    [] kind = "Do" -> "format_do_block"
    [] kind = "FunctionCall" -> "format_function_call_stmt"
    [] kind = "FunctionDeclaration" -> "format_function_declaration"
    [] kind = "GenericFor" -> "format_generic_for"
    [] kind = "If" -> "format_if"
    [] kind = "LocalAssignment" -> "format_local_assignment"
    [] kind = "LocalFunction" -> "format_local_function"
    [] kind = "NumericFor" -> "format_numeric_for"
    [] kind = "Repeat" -> "format_repeat_block"
    [] kind = "While" -> "format_while_block"
    [] kind = "CompoundAssignment" -> "format_compound_assignment"
    [] kind = "ExportedTypeDeclaration" -> "format_exported_type_declaration"
    [] kind = "TypeDeclaration" -> "format_type_declaration_stmt"
    [] kind = "Goto" -> "format_goto"
    [] kind = "Label" -> "format_label"

RunFormatter(name, cfg, stmt, shape) ==
  CASE name = "format_do_block" -> format_do_block(cfg, stmt, shape)
    [] name = "format_function_call_stmt" -> format_function_call_stmt(cfg, stmt, shape)
    [] name = "format_generic_for" -> format_generic_for(cfg, stmt, shape)
    [] name = "format_if" -> format_if(cfg, stmt, shape)
    [] name = "format_numeric_for" -> format_numeric_for(cfg, stmt, shape)
    [] name = "format_repeat_block" -> format_repeat_block(cfg, stmt, shape)
    [] name = "format_while_block" -> format_while_block(cfg, stmt, shape)
    [] OTHER -> FormatOther(cfg, stmt, shape)

WithRan(r, names) == [tag |-> r.tag, node |-> r.node, ran |-> names]

\* fmt_stmt! with a catch-all arm that hands an unknown statement back
fmt_stmt_skip_unknown(features, cfg, stmt, shape) ==
  IF stmt.kind \in DispatchKinds(features)
  THEN WithRan(RunFormatter(Formatter(stmt.kind), cfg, stmt, shape),
               <<Formatter(stmt.kind)>>)
  ELSE WithRan(Ok(stmt), <<>>)

\* fmt_stmt!: one arm per kind of the dispatch set, and panic for any other
fmt_stmt(features, cfg, stmt, shape) ==
  IF stmt.kind \in DispatchKinds(features)
  THEN WithRan(RunFormatter(Formatter(stmt.kind), cfg, stmt, shape),
               <<Formatter(stmt.kind)>>)
  ELSE WithRan(Panic(stmt), <<>>)

\* format_stmt without the range test
format_stmt_no_range(ctx, stmt, shape) ==
  fmt_stmt(ctx.features, ctx.config, stmt, shape)

\* ctx is the configuration, the compiled features and the answer of
\* should_format_node for the statement
format_stmt(ctx, stmt, shape) ==
  IF ~ctx.should_format_node
  THEN WithRan(format_stmt_block(ctx.features, stmt, shape), <<"format_stmt_block">>)
  ELSE fmt_stmt(ctx.features, ctx.config, stmt, shape)


(***************************************************************************)
(* Syntax trees, printing and parsing (full_moon).  A tree is the          *)
(* statement that is formatted, at block nesting depth level, and whether  *)
(* a call statement follows it.                                            *)
(***************************************************************************)
PrintToken(tok) == tok.lead \o <<TokItem(tok.sym)>> \o tok.trail

RECURSIVE PrintOpen(_)
PrintOpen(wraps) ==
  IF wraps = <<>> THEN <<>>
  ELSE (IF Head(wraps).t = "P" THEN <<TokItem("(")>> \o Head(wraps).cmts ELSE <<>>)
         \o PrintOpen(Tail(wraps))

PrintExpr(e) ==
  e.lead \o PrintOpen(e.wraps) \o <<TokItem(e.core)>>
    \o [i \in 1..ParenCount(e) |-> TokItem(")")] \o e.cmts \o e.trail

PrintList(name, list) == <<TokItem(name)>> \o list.cmts
PrintBlock(block) == <<TokItem("block")>>

PrintArm(arm) ==
  PrintToken(arm.toks.else_if_token) \o PrintExpr(arm.condition)
    \o PrintToken(arm.toks.then_token) \o PrintBlock(arm.block)

PrintOptional(node, name) == IF Has(node, name) THEN PrintToken(node.toks[name]) ELSE <<>>

PrintStmt(stmt) ==
  CASE stmt.kind = "If" ->
         PrintToken(stmt.toks.if_token) \o PrintExpr(stmt.condition)
           \o PrintToken(stmt.toks.then_token) \o PrintBlock(stmt.block)
           \o Flatten([i \in 1..Len(stmt.else_if) |-> PrintArm(stmt.else_if[i])])
           \o PrintOptional(stmt, "else_token")
           \o Flatten([i \in 1..Len(stmt.else_block) |-> PrintBlock(stmt.else_block[i])])
           \o PrintToken(stmt.toks.end_token)
    [] stmt.kind = "While" ->
         PrintToken(stmt.toks.while_token) \o PrintExpr(stmt.condition)
           \o PrintToken(stmt.toks.do_token) \o PrintBlock(stmt.block)
           \o PrintToken(stmt.toks.end_token)
    [] stmt.kind = "Repeat" ->
         PrintToken(stmt.toks.repeat_token) \o PrintBlock(stmt.block)
           \o PrintToken(stmt.toks.until_token) \o PrintExpr(stmt.condition)
    [] stmt.kind = "GenericFor" ->
         PrintToken(stmt.toks.for_token) \o PrintList("names", stmt.names)
           \o PrintToken(stmt.toks.in_token) \o PrintList("expressions", stmt.expressions)
           \o PrintToken(stmt.toks.do_token) \o PrintBlock(stmt.block)
           \o PrintToken(stmt.toks.end_token)
    [] stmt.kind = "NumericFor" ->
         PrintToken(stmt.toks.for_token) \o <<TokItem("index")>>
           \o PrintToken(stmt.toks.equal_token) \o <<TokItem("start"), TokItem("end")>>
           \o PrintOptional(stmt, "end_step_comma")
           \o Flatten([i \in 1..Len(stmt.step) |-> PrintExpr(stmt.step[i])])
           \o PrintToken(stmt.toks.do_token) \o PrintBlock(stmt.block)
           \o PrintToken(stmt.toks.end_token)
    [] stmt.kind = "Do" ->
         PrintToken(stmt.toks.do_token) \o PrintBlock(stmt.block)
           \o PrintToken(stmt.toks.end_token)
    [] OTHER -> PrintToken(stmt.toks.stmt_token)

FollowingCall == <<TokItem("call"), NewlineTrivia>>

\* full_moon::print
full_moon_print(tree) == PrintStmt(tree.stmt) \o (IF tree.follow THEN FollowingCall ELSE <<>>)

IsTok(i) == i.k = "tok"
TokensOf(text) == SelectSeq(text, IsTok)

RECURSIVE Lex(_, _)
\* the tokens the tokenizer finds: a single-line comment extends to the end
\* of its line, so what follows it on the line is part of the comment
Lex(text, inComment) ==
  IF text = <<>> THEN <<>>
  ELSE LET i == Head(text)
       IN IF i.k = "tok"
          THEN (IF inComment THEN <<>> ELSE <<i>>) \o Lex(Tail(text), inComment)
          ELSE IF i.k = "nl" THEN Lex(Tail(text), FALSE)
          ELSE IF i.k = "cmt" /\ i.line THEN Lex(Tail(text), TRUE)
          ELSE Lex(Tail(text), inComment)

\* The tokens of a repeat statement whose condition was commented out, with
\* the call that follows taken as the condition.
ConditionLost(tree) ==
  /\ tree.stmt.kind = "Repeat"
  /\ tree.follow
  /\ Lex(full_moon_print(tree), FALSE) =
       TokensOf(PrintToken(tree.stmt.toks.repeat_token) \o PrintBlock(tree.stmt.block)
                  \o PrintToken(tree.stmt.toks.until_token) \o FollowingCall)

\* full_moon::parse of the text printed from tree: the same tree when every
\* token is read back; the repeat statement with the following call as its
\* condition when exactly the condition was commented out; an error when
\* any other token is lost.
full_moon_parse(tree, text) ==
  IF Lex(text, FALSE) = TokensOf(text) THEN [tag |-> "Ok", tree |-> tree]
  ELSE IF ConditionLost(tree)
       THEN [tag |-> "Ok",
             tree |-> [tree EXCEPT !.follow = FALSE,
                                   !.stmt.condition = Expr(<<>>, "call", 0, <<>>)]]
       ELSE [tag |-> "Err", tree |-> tree]

\* verify_ast::AstVerifier::compare: the statements and their expressions
\* without trivia and without redundant parentheses
CondSkeleton(e) == <<e.core, e.width>>
Skeleton(tree) ==
  [kind |-> tree.stmt.kind, follow |-> tree.follow,
   condition |-> CondSkeleton(tree.stmt.condition),
   else_if |-> [i \in 1..Len(tree.stmt.else_if) |->
                  CondSkeleton(tree.stmt.else_if[i].condition)],
   else_block |-> Len(tree.stmt.else_block), step |-> Len(tree.stmt.step)]
compare(input_ast, reparsed_output) == Skeleton(input_ast) = Skeleton(reparsed_output)

\* CodeFormatter::format: the statements of the top-level block, each through
\* format_stmt with the shape of its nesting depth
CodeFormatterFormat(ctx, tree) ==
  LET r == format_stmt(ctx, tree.stmt, ShapeNew(tree.level))
  IN [tag |-> r.tag, tree |-> [tree EXCEPT !.stmt = r.node], ran |-> r.ran]


(***************************************************************************)
(* The inputs: the programs the parser can hand to the formatter.          *)
(***************************************************************************)
\* no comment, a single-line comment (with the line break that ends it) or
\* a block comment
CommentChoices(id) == {<<>>, <<Comment(id, TRUE), NewlineTrivia>>, <<Comment(id, FALSE)>>}
LineCommentChoices(id) == {<<>>, <<Comment(id, TRUE), NewlineTrivia>>}
BlockCommentChoices(id) == {<<>>, <<Comment(id, FALSE)>>}

NoExpr == Expr(<<>>, "none", 0, <<>>)
List(cmts) == [cmts |-> cmts, fmt |-> <<>>]
Stmt(kind, toks, condition) ==
  [kind |-> kind, toks |-> toks, condition |-> condition, names |-> List(<<>>),
   expressions |-> List(<<>>), step |-> <<>>, block |-> Block(1),
   else_if |-> <<>>, else_block |-> <<>>, values |-> <<>>, targets |-> <<>>]
Plain(sym) == Token(sym, <<>>, <<>>)

RECURSIVE Parenthesized(_, _)
\* k nested pairs of parentheses as the parser builds them: each pair is a
\* Value::ParenthesesExpression holding an Expression::Parentheses; cmts are
\* the comments on the tokens of the outermost pair
Parenthesized(k, cmts) ==
  IF k = 0 THEN <<>>
  ELSE <<Layer("V", <<>>), Layer("P", cmts)>> \o Parenthesized(k - 1, <<>>)
Wraps ==
  {Parenthesized(k, c) : k \in 0..MaxParenDepth, c \in BlockCommentChoices(2)}
Widths == {ShortWidth, MidWidth, LongWidth}
Conds == {Expr(w, "Var", n, c) : w \in Wraps, n \in Widths, c \in LineCommentChoices(3)}
ArmConds ==
  {Expr(w, "Var", n, c) : w \in {Parenthesized(k, <<>>) : k \in 0..1},
                          n \in {ShortWidth, LongWidth}, c \in {<<>>}}

Arms ==
  {[toks |-> [else_if_token |-> Token("elseif", <<>>, t), then_token |-> Token("then", l, <<>>)],
    condition |-> c, block |-> Block(2)] :
     t \in LineCommentChoices(9), l \in LineCommentChoices(10), c \in ArmConds}

IfNode(ifTrail, cond, thenLead, arms, hasElse) ==
  [Stmt("If",
        IF hasElse
        THEN [if_token |-> Token("if", <<>>, ifTrail), then_token |-> Token("then", thenLead, <<>>),
              else_token |-> Plain("else"), end_token |-> Plain("end")]
        ELSE [if_token |-> Token("if", <<>>, ifTrail), then_token |-> Token("then", thenLead, <<>>),
              end_token |-> Plain("end")],
        cond)
   EXCEPT !.else_if = arms, !.else_block = IF hasElse THEN <<Block(3)>> ELSE <<>>]

IfStmts ==
  {IfNode(t, c, l, <<>>, e) :
     t \in CommentChoices(1), c \in Conds, l \in LineCommentChoices(4), e \in BOOLEAN}
  \cup {IfNode(<<>>, Expr(<<>>, "Var", ShortWidth, <<>>), <<>>, a, e) :
          a \in SeqsOver(Arms, MaxArms) \ {<<>>}, e \in BOOLEAN}

WhileStmts ==
  {Stmt("While",
        [while_token |-> Token("while", <<>>, t), do_token |-> Token("do", l, <<>>),
         end_token |-> Plain("end")], c) :
     t \in CommentChoices(1), c \in Conds, l \in LineCommentChoices(4)}

RepeatStmts ==
  {Stmt("Repeat",
        [repeat_token |-> Plain("repeat"), until_token |-> Token("until", <<>>, t)], c) :
     t \in CommentChoices(1), c \in Conds}

GenericForStmts ==
  {[Stmt("GenericFor",
         [for_token |-> Plain("for"), in_token |-> Token("in", <<>>, i),
          do_token |-> Token("do", <<>>, d), end_token |-> Plain("end")], NoExpr)
    EXCEPT !.names = List(n), !.expressions = List(x)] :
     n \in CommentChoices(5), i \in CommentChoices(6), x \in BlockCommentChoices(7),
     d \in LineCommentChoices(8)}

NumericForStmts ==
  {[Stmt("NumericFor",
         IF st
         THEN [for_token |-> Token("for", <<>>, t), equal_token |-> Plain("="),
               end_step_comma |-> Plain(","), do_token |-> Plain("do"),
               end_token |-> Plain("end")]
         ELSE [for_token |-> Token("for", <<>>, t), equal_token |-> Plain("="),
               do_token |-> Plain("do"), end_token |-> Plain("end")], NoExpr)
    EXCEPT !.step = IF st THEN <<Expr(<<>>, "Var", ShortWidth, <<>>)>> ELSE <<>>] :
     t \in BlockCommentChoices(1), st \in BOOLEAN}

DoStmts ==
  {Stmt("Do", [do_token |-> Token("do", <<>>, t), end_token |-> Token("end", l, <<>>)], NoExpr) :
     t \in LineCommentChoices(1), l \in LineCommentChoices(4)}

OtherKinds == AllKinds \ {"If", "While", "Repeat", "GenericFor", "NumericFor", "Do"}
OtherStmts ==
  {Stmt(k, [stmt_token |-> Token("stmt", <<>>, t)], NoExpr) :
     k \in OtherKinds, t \in LineCommentChoices(1)}

\* Expressions that hold an anonymous function: the function lies in one
\* or two nodes, a pair of parentheses being the two layers the parser
\* builds for it.  The layers of the kinds named Other are nodes of kinds
\* the formatter has no arm for (the enums of the tree are non-exhaustive).
NestUnits ==
  {<<Layer(t, <<>>)>> : t \in LayerKinds \ {"P", "V"}} \cup {Parenthesized(1, <<>>)}
NestChains == NestUnits \cup {a \o b : a \in NestUnits, b \in NestUnits}
FunctionExpr(wraps) == [Expr(wraps, "Function", ShortWidth, <<>>) EXCEPT !.body = <<Block(4)>>]
NestedExprs == {FunctionExpr(w) : w \in NestChains}
\* a function that is called, a function that is an argument
HeaderExprs ==
  {FunctionExpr(<<Layer("CallPrefix", <<>>)>> \o Parenthesized(1, <<>>)),
   FunctionExpr(<<Layer("CallArgs", <<>>)>>)}

ValueStmts ==
  {[Stmt(k, [stmt_token |-> Plain("stmt")], NoExpr) EXCEPT !.values = <<e>>] :
     k \in {"Assignment", "LocalAssignment", "CompoundAssignment"}, e \in NestedExprs}
  \cup {[Stmt("FunctionCall", [stmt_token |-> Plain("stmt")], NoExpr) EXCEPT !.values = <<e>>] :
          e \in {x \in NestedExprs : Head(x.wraps).t \in CallLayers}}
  \cup {[Stmt("Assignment", [stmt_token |-> Plain("stmt")], NoExpr)
          EXCEPT !.targets = <<FunctionExpr(<<Layer("VarIndex", <<>>)>>)>>]}

HeaderStmts ==
  {IfNode(<<>>, e, <<>>, <<>>, FALSE) : e \in HeaderExprs}
  \cup {IfNode(<<>>, Expr(<<>>, "Var", ShortWidth, <<>>), <<>>,
                <<[toks |-> [else_if_token |-> Plain("elseif"), then_token |-> Plain("then")],
                   condition |-> e, block |-> Block(2)]>>, FALSE) : e \in HeaderExprs}
  \cup {Stmt("While", [while_token |-> Plain("while"), do_token |-> Plain("do"),
                        end_token |-> Plain("end")], e) : e \in HeaderExprs}
  \cup {Stmt("Repeat", [repeat_token |-> Plain("repeat"), until_token |-> Plain("until")], e) :
          e \in HeaderExprs}
  \cup {[Stmt("NumericFor", [for_token |-> Plain("for"), equal_token |-> Plain("="),
                             end_step_comma |-> Plain(","), do_token |-> Plain("do"),
                             end_token |-> Plain("end")], NoExpr)
          EXCEPT !.step = <<e>>] : e \in HeaderExprs}

\* the statements with a function inside an expression
NestedStmts == ValueStmts \cup HeaderStmts

Stmts ==
  IfStmts \cup WhileStmts \cup RepeatStmts \cup GenericForStmts \cup NumericForStmts
    \cup DoStmts \cup OtherStmts \cup NestedStmts

Tree(stmt, follow, level) == [stmt |-> stmt, follow |-> follow, level |-> level]
Trees ==
  {Tree(s, f, l) : s \in Stmts, f \in BOOLEAN, l \in 0..MaxLevel}

Configs == {ConfigDefault, with_column_width(ConfigDefault, NarrowColumnWidth)}
FeatureSets == {{}, {"luau", "lua52"}}

(***************************************************************************)
(* format_code (lib.rs): one call, step by step.                           *)
(***************************************************************************)
VARIABLES
  code,            \* the input text: whether it parses, and the tree it parses to
  config,          \* the Config of the call
  ctx_features,    \* the features the formatter was compiled with
  in_range,        \* Context::should_format_node for the statement (the Range)
  verify_output,   \* OutputVerification: "Full" or "None"
  pc,              \* the position in format_code
  input_ast,       \* the parsed tree (a sequence of length 0 or 1)
  input_ast_for_verification,
  ast,             \* the formatted tree
  ran,             \* the formatters format_stmt ran
  output,          \* the printed text (a sequence of length 0 or 1)
  reparsed_output,
  compared,        \* what the comparison reported: "none", "equal", "different"
  result,          \* what the call returned
  steps            \* the steps taken so far, in order

vars == <<code, config, ctx_features, in_range, verify_output, pc, input_ast,
          input_ast_for_verification, ast, ran, output, reparsed_output, compared,
          result, steps>>
inputs == <<code, config, ctx_features, in_range, verify_output>>

NoResult == [tag |-> "none", error |-> "", output |-> <<>>]
ResultOk(text) == [tag |-> "Ok", error |-> "", output |-> text]
ResultErr(e) == [tag |-> "Err", error |-> e, output |-> <<>>]
ResultPanic == [tag |-> "panic", error |-> "", output |-> <<>>]

Ctx == [config |-> config, features |-> ctx_features, should_format_node |-> in_range]

Unparsable == [parses |-> FALSE, tree |-> Tree(Stmt("Do", [do_token |-> Plain("do")], NoExpr), FALSE, 0)]

Init ==
  /\ code \in {Unparsable} \cup {[parses |-> TRUE, tree |-> t] : t \in Trees}
  /\ config \in Configs
  /\ ctx_features \in FeatureSets
  /\ in_range \in BOOLEAN
  /\ verify_output \in {"Full", "None"}
  \* the level, the narrow width, the following call and the feature set are
  \* varied where the formatter reads them
  /\ code.tree.follow => code.tree.stmt.kind = "Repeat"
  /\ ctx_features = {} => code.tree.stmt.kind \in OtherKinds
  /\ code.tree.stmt \in NestedStmts =>
       ~in_range /\ config = ConfigDefault /\ ctx_features # {}
  /\ pc = "parse"
  /\ input_ast = <<>>
  /\ input_ast_for_verification = <<>>
  /\ ast = <<>>
  /\ ran = <<>>
  /\ output = <<>>
  /\ reparsed_output = <<>>
  /\ compared = "none"
  /\ result = NoResult
  /\ steps = <<>>

\* ParseInput going on with the formatting after a parse error
ParseInputGoesOn ==
  /\ pc = "parse"
  /\ steps' = Append(steps, "parse")
  /\ input_ast' = <<code.tree>>
  /\ pc' = "snapshot"
  /\ UNCHANGED <<inputs, input_ast_for_verification, ast, ran, output, reparsed_output,
                 compared, result>>

\* lib.rs 271-276
ParseInput ==
  /\ pc = "parse"
  /\ steps' = Append(steps, "parse")
  /\ IF code.parses
     THEN /\ input_ast' = <<code.tree>>
          /\ pc' = "snapshot"
          /\ result' = result
     ELSE /\ input_ast' = input_ast
          /\ pc' = "done"
          /\ result' = ResultErr("ParseError")
  /\ UNCHANGED <<inputs, input_ast_for_verification, ast, ran, output, reparsed_output,
                 compared>>

\* TakeSnapshot keeping the tree the formatter gives instead of the tree
\* that was parsed
TakeSnapshotOfFormatted ==
  /\ pc = "snapshot"
  /\ IF verify_output = "Full"
     THEN /\ input_ast_for_verification' = <<CodeFormatterFormat(Ctx, input_ast[1]).tree>>
          /\ steps' = Append(steps, "snapshot")
     ELSE /\ input_ast_for_verification' = <<>>
          /\ steps' = steps
  /\ pc' = "format"
  /\ UNCHANGED <<inputs, input_ast, ast, ran, output, reparsed_output, compared, result>>

\* TakeSnapshot taking the snapshot whatever verification was asked for
TakeSnapshotAlways ==
  /\ pc = "snapshot"
  /\ input_ast_for_verification' = <<input_ast[1]>>
  /\ steps' = Append(steps, "snapshot")
  /\ pc' = "format"
  /\ UNCHANGED <<inputs, input_ast, ast, ran, output, reparsed_output, compared, result>>

\* lib.rs 279-283
TakeSnapshot ==
  /\ pc = "snapshot"
  /\ IF verify_output = "Full"
     THEN /\ input_ast_for_verification' = <<input_ast[1]>>
          /\ steps' = Append(steps, "snapshot")
     ELSE /\ input_ast_for_verification' = <<>>
          /\ steps' = steps
  /\ pc' = "format"
  /\ UNCHANGED <<inputs, input_ast, ast, ran, output, reparsed_output, compared, result>>

\* lib.rs 285-286
FormatAst ==
  /\ pc = "format"
  /\ steps' = Append(steps, "format")
  /\ LET r == CodeFormatterFormat(Ctx, input_ast[1])
     IN /\ ran' = r.ran
        /\ IF r.tag = "ok"
           THEN /\ ast' = <<r.tree>>
                /\ pc' = "print"
                /\ result' = result
           ELSE /\ ast' = ast
                /\ pc' = "done"
                /\ result' = ResultPanic
  /\ UNCHANGED <<inputs, input_ast, input_ast_for_verification, output, reparsed_output,
                 compared>>

\* lib.rs 287
PrintAst ==
  /\ pc = "print"
  /\ steps' = Append(steps, "print")
  /\ output' = <<full_moon_print(ast[1])>>
  /\ pc' = "verify"
  /\ UNCHANGED <<inputs, input_ast, input_ast_for_verification, ast, ran, reparsed_output,
                 compared, result>>

\* ReparseOutput returning the output although it does not reparse
ReparseOutputSwallows ==
  /\ pc = "verify"
  /\ input_ast_for_verification # <<>>
  /\ steps' = Append(steps, "reparse")
  /\ LET r == full_moon_parse(ast[1], output[1])
     IN IF r.tag = "Ok"
        THEN /\ reparsed_output' = <<r.tree>>
             /\ pc' = "compare"
        ELSE /\ reparsed_output' = reparsed_output
             /\ pc' = "return"
  /\ UNCHANGED <<inputs, input_ast, input_ast_for_verification, ast, ran, output, compared,
                 result>>

\* lib.rs 290-296
ReparseOutput ==
  /\ pc = "verify"
  /\ input_ast_for_verification # <<>>
  /\ steps' = Append(steps, "reparse")
  /\ LET r == full_moon_parse(ast[1], output[1])
     IN IF r.tag = "Ok"
        THEN /\ reparsed_output' = <<r.tree>>
             /\ pc' = "compare"
             /\ result' = result
        ELSE /\ reparsed_output' = reparsed_output
             /\ pc' = "done"
             /\ result' = ResultErr("VerificationAstError")
  /\ UNCHANGED <<inputs, input_ast, input_ast_for_verification, ast, ran, output, compared>>

\* CompareAsts passing a difference over
CompareAstsPasses ==
  /\ pc = "compare"
  /\ steps' = Append(steps, "compare")
  /\ compared' = IF compare(input_ast_for_verification[1], reparsed_output[1])
                 THEN "equal" ELSE "different"
  /\ pc' = "return"
  /\ UNCHANGED <<inputs, input_ast, input_ast_for_verification, ast, ran, output,
                 reparsed_output, result>>

\* lib.rs 298-301
CompareAsts ==
  /\ pc = "compare"
  /\ steps' = Append(steps, "compare")
  /\ IF compare(input_ast_for_verification[1], reparsed_output[1])
     THEN /\ compared' = "equal"
          /\ pc' = "return"
          /\ result' = result
     ELSE /\ compared' = "different"
          /\ pc' = "done"
          /\ result' = ResultErr("VerificationAstDifference")
  /\ UNCHANGED <<inputs, input_ast, input_ast_for_verification, ast, ran, output,
                 reparsed_output>>

\* lib.rs 304
ReturnOk ==
  /\ \/ pc = "verify" /\ input_ast_for_verification = <<>>
     \/ pc = "return"
  /\ result' = ResultOk(output[1])
  /\ pc' = "done"
  /\ UNCHANGED <<inputs, input_ast, input_ast_for_verification, ast, ran, output,
                 reparsed_output, compared, steps>>

Next ==
  \/ ParseInput
  \/ TakeSnapshot
  \/ FormatAst
  \/ PrintAst
  \/ ReparseOutput
  \/ CompareAsts
  \/ ReturnOk

Spec == Init /\ [][Next]_vars

(***************************************************************************)
(* A caller building a Config: Config::new() and then any of the builders. *)
(***************************************************************************)
ConfigInit ==
  /\ code = Unparsable
  /\ config = Config_new
  /\ ctx_features = {}
  /\ in_range = FALSE
  /\ verify_output = "None"
  /\ pc = "config"
  /\ input_ast = <<>>
  /\ input_ast_for_verification = <<>>
  /\ ast = <<>>
  /\ ran = <<>>
  /\ output = <<>>
  /\ reparsed_output = <<>>
  /\ compared = "none"
  /\ result = NoResult
  /\ steps = <<>>

\* the configuration becomes c and nothing else changes
Build(c) ==
  /\ pc = "config"
  /\ config' = c
  /\ UNCHANGED <<code, ctx_features, in_range, verify_output, pc, input_ast,
                 input_ast_for_verification, ast, ran, output, reparsed_output, compared,
                 result, steps>>

WithColumnWidth ==
  \E v \in {DefaultColumnWidth, NarrowColumnWidth} : Build(with_column_width(config, v))
WithLineEndings == \E v \in LineEndingsKinds : Build(with_line_endings(config, v))
WithIndentType == \E v \in IndentTypes : Build(with_indent_type(config, v))
WithIndentWidth ==
  \E v \in {DefaultIndentWidth, NarrowIndentWidth} : Build(with_indent_width(config, v))
WithQuoteStyle == \E v \in QuoteStyles : Build(with_quote_style(config, v))
WithNoCallParentheses == \E v \in BOOLEAN : Build(with_no_call_parentheses(config, v))
WithTableSep == \E v \in TableSeparatorsKinds : Build(with_table_sep(config, v))
WithExtraSepAtTableEnd == \E v \in BOOLEAN : Build(with_extra_sep_at_table_end(config, v))
WithExtraSpacesInsideTable ==
  \E v \in BOOLEAN : Build(with_extra_spaces_inside_table(config, v))
WithExtraSpaceInEmptyTable ==
  \E v \in BOOLEAN : Build(with_extra_space_in_empty_table(config, v))

ConfigNext ==
  \/ WithColumnWidth
  \/ WithLineEndings
  \/ WithIndentType
  \/ WithIndentWidth
  \/ WithQuoteStyle
  \/ WithNoCallParentheses
  \/ WithTableSep
  \/ WithExtraSepAtTableEnd
  \/ WithExtraSpacesInsideTable
  \/ WithExtraSpaceInEmptyTable

ConfigSpec == ConfigInit /\ [][ConfigNext]_vars

(***************************************************************************)
(* A caller of format_if (a public function): the conditionals of the      *)
(* parser, conditionals with a chain of elseif arms, and conditionals put  *)
(* together through the node's builders with an else token and no else     *)
(* block, or an else block and no else token.                              *)
(***************************************************************************)
ChainedIfs ==
  {IfNode(<<>>, Expr(<<>>, "Var", ShortWidth, <<>>), <<>>, a, e) :
     a \in SeqsOver(Arms, MaxChain) \ {<<>>}, e \in BOOLEAN}

MalformedIfs ==
  {[n EXCEPT !.else_block = IF @ = <<>> THEN <<Block(3)>> ELSE <<>>] :
     n \in IfStmts \cup ChainedIfs}

IfInit ==
  /\ code \in {[parses |-> TRUE, tree |-> Tree(n, FALSE, l)] :
                 n \in IfStmts \cup ChainedIfs \cup MalformedIfs, l \in 0..MaxLevel}
  /\ config \in Configs
  /\ ctx_features = {}
  /\ in_range = TRUE
  /\ verify_output = "None"
  /\ pc = "format_if"
  /\ input_ast = <<code.tree>>
  /\ input_ast_for_verification = <<>>
  /\ ast = <<>>
  /\ ran = <<>>
  /\ output = <<>>
  /\ reparsed_output = <<>>
  /\ compared = "none"
  /\ result = NoResult
  /\ steps = <<>>

\* stmt.rs 197-282: the call returns the formatted node or aborts
FormatIf ==
  /\ pc = "format_if"
  /\ steps' = Append(steps, "format_if")
  /\ ran' = <<"format_if">>
  /\ pc' = "done"
  /\ LET r == format_if(config, input_ast[1].stmt, ShapeNew(input_ast[1].level))
     IN IF r.tag = "ok"
        THEN /\ ast' = <<[input_ast[1] EXCEPT !.stmt = r.node]>>
             /\ result' = result
        ELSE /\ ast' = ast
             /\ result' = ResultPanic
  /\ UNCHANGED <<inputs, input_ast, input_ast_for_verification, output, reparsed_output,
                 compared>>

IfNext == FormatIf

IfSpec == IfInit /\ [][IfNext]_vars


(***************************************************************************)
(* Properties of format_code and of the statement formatters.              *)
(***************************************************************************)
Took(step) == \E i \in DOMAIN steps : steps[i] = step
Done == pc = "done"
InputStmt == code.tree.stmt
InputShape == ShapeNew(code.tree.level)
Formatted == ast # <<>>
IsNewline(i) == i.k = "nl"
Breaks(items) == Len(SelectSeq(items, IsNewline))

\* the layers of kinds the descent has no arm of their own for: those that
\* fall into an arm that aborts (Expression, Prefix, Call, Suffix, Field) and
\* those that fall into an arm that hands the node back (Value, FunctionArgs,
\* Index)
AbortingLayers ==
  {"OtherExpression", "CallOtherPrefix", "CallOtherCall", "CallOtherSuffix",
   "TableOtherField"}
KeptLayers == {"OtherValue", "VarIndex", "CallOtherArgs", "CallOtherIndex"}
\* the places of an expression at which a node of such a kind lies, and the
\* outermost of them, which is the one the descent comes to
Unhandled(e) == {k \in DOMAIN e.wraps : e.wraps[k].t \in AbortingLayers \cup KeptLayers}
FirstUnhandled(e) == CHOOSE k \in Unhandled(e) : \A j \in Unhandled(e) : k <= j
\* whether the descent of format_stmt_block comes to the expressions of the
\* statement
Descended(stmt, features) ==
  stmt.kind \in ExpressionKinds /\ stmt.kind \in DispatchKinds(features)
\* whether the descent outside the range aborts on an expression of the
\* statement
DescentAborts ==
  /\ ~in_range /\ Descended(InputStmt, ctx_features)
  /\ \E i \in DOMAIN InputStmt.values :
       /\ Unhandled(InputStmt.values[i]) # {}
       /\ InputStmt.values[i].wraps[FirstUnhandled(InputStmt.values[i])].t \in AbortingLayers

\* whether the printed text of the formatted tree fails to parse
ReparseFails == output # <<>> /\ full_moon_parse(ast[1], output[1]).tag = "Err"
\* whether the structural comparison of the snapshot with the reparsed tree
\* reports a difference
ComparisonDiffers ==
  /\ input_ast_for_verification # <<>>
  /\ reparsed_output # <<>>
  /\ ~compare(input_ast_for_verification[1], reparsed_output[1])

\* C1: a call on text that does not parse takes the parse step and nothing
\* else: no snapshot, no formatting, no printing and no reparse happen, and
\* the call ends with Err(ParseError), never with Ok or a verification error.
C1_ParseErrorImmediately ==
  ~code.parses =>
    /\ pc \in {"parse", "done"}
    /\ steps \in {<<>>, <<"parse">>}
    /\ input_ast = <<>> /\ input_ast_for_verification = <<>> /\ ast = <<>>
    /\ ran = <<>> /\ output = <<>> /\ reparsed_output = <<>> /\ compared = "none"
    /\ result \in {NoResult, ResultErr("ParseError")}
    /\ Done <=> result = ResultErr("ParseError")

\* a call on unparsable text has returned
C1_Witness == ~code.parses /\ Done /\ result = ResultErr("ParseError")

\* C2: under Full verification, when the printed text does not reparse the
\* call ends with Err(VerificationAstError); it never ends with Ok or with
\* VerificationAstDifference, and the comparison is not run.
C2_ReparseFaultIsError ==
  (verify_output = "Full" /\ ReparseFails) =>
    /\ result \in {NoResult, ResultErr("VerificationAstError")}
    /\ Done <=> result = ResultErr("VerificationAstError")
    /\ ~Took("compare") /\ compared = "none" /\ reparsed_output = <<>>
    /\ pc \in {"verify", "done"}

\* a Full call whose output did not reparse has returned
C2_Witness ==
  /\ verify_output = "Full" /\ ReparseFails /\ Took("reparse") /\ Done
  /\ result = ResultErr("VerificationAstError")

\* C3: under Full verification, when the output reparses and the comparison
\* reports a difference the call ends with Err(VerificationAstDifference),
\* which is not the reparse fault; and Ok(output) is returned under Full only
\* after a successful reparse and a comparison that reported equality.
C3_DifferenceIsReported ==
  /\ (verify_output = "Full" /\ ComparisonDiffers /\ Took("compare")) =>
       /\ Done /\ result = ResultErr("VerificationAstDifference")
       /\ result # ResultErr("VerificationAstError")
       /\ compared = "different"
  /\ (verify_output = "Full" /\ result.tag = "Ok") =>
       /\ Took("reparse") /\ ~ReparseFails /\ reparsed_output # <<>>
       /\ Took("compare") /\ ~ComparisonDiffers /\ compared = "equal"
       /\ result = ResultOk(output[1])

\* a Full call whose reparsed output differs from the input has returned
C3_Witness ==
  /\ verify_output = "Full" /\ ComparisonDiffers /\ Done
  /\ result = ResultErr("VerificationAstDifference")

\* C4 as stated: every call ends with a value, Ok or Err, and the tree
\* transform yields a tree for every input that parsed.
C4_EveryFaultIsErr ==
  /\ Done => result.tag \in {"Ok", "Err"}
  /\ (code.parses /\ Took("format")) => Formatted

\* C4: a parse fault, a reparse fault and a semantic difference end the call
\* with an Err value; a statement of a kind outside the compiled dispatch set
\* aborts the call with a panic, in the formatted and in the range-limited
\* path, as does a node of an unknown kind the range-limited descent comes
\* to inside an expression, and the call returns no value; the tree
\* transform yields a tree for every other parsed input.
C4_FaultsReachCaller ==
  /\ Done =>
       /\ result.tag \in {"Ok", "Err", "panic"}
       /\ ~code.parses => result = ResultErr("ParseError")
       /\ result.tag = "panic" <=>
            /\ code.parses
            /\ InputStmt.kind \notin DispatchKinds(ctx_features) \/ DescentAborts
       /\ (verify_output = "Full" /\ ReparseFails) =>
            result = ResultErr("VerificationAstError")
       /\ (verify_output = "Full" /\ ComparisonDiffers) =>
            result = ResultErr("VerificationAstDifference")
       /\ result.tag = "Err" =>
            \/ ~code.parses
            \/ verify_output = "Full" /\ (ReparseFails \/ ComparisonDiffers)
  /\ (code.parses /\ Took("format")
        /\ InputStmt.kind \in DispatchKinds(ctx_features) /\ ~DescentAborts) => Formatted

\* a call on a statement of a kind that was not compiled in has aborted
C4_Witness ==
  /\ Done /\ code.parses /\ InputStmt.kind \notin DispatchKinds(ctx_features)
  /\ result = ResultPanic /\ ~Formatted

\* the text a second formatting pass gives for the output of the first
SecondPass == CodeFormatterFormat(Ctx, full_moon_parse(ast[1], output[1]).tree)

\* C5: formatting is idempotent: when a call returned Ok(output) and the
\* output is well-formed, formatting the output again under the same
\* configuration yields the same text.
C5_Idempotent ==
  (Done /\ result.tag = "Ok" /\ ~ReparseFails) =>
    /\ SecondPass.tag = "ok"
    /\ full_moon_print(SecondPass.tree) = output[1]

\* the comments of a statement, in the order of its text
StmtComments(stmt) == CommentsOf(PrintStmt(stmt))

\* C6: the comments of the formatted statement are the comments of the
\* statement before formatting: the same comments, in the same order, each
\* once.
C6_TriviaConserved ==
  Formatted => StmtComments(ast[1].stmt) = StmtComments(InputStmt)

\* C7: for an input that parses, a call under Full verification never ends
\* with VerificationAstError.
C7_NoReparseFault ==
  (code.parses /\ verify_output = "Full") => result # ResultErr("VerificationAstError")

\* C8 (i)-(iv) for one header: kw and endkw are the keyword tokens before
\* formatting, condition the condition that is left after the parenthesis
\* stripping
HangRequired(cfg, shape, kwWidth, endWidth, kw, condition, endkw) ==
  \/ IndentLevels(shape) * cfg.indent_width + shape.offset
       + kwWidth + StrippedLen(condition) + endWidth > cfg.column_width
  \/ CommentsOf(kw.trail) # <<>>
  \/ CommentsOf(endkw.lead) # <<>>
  \/ ExprComments(condition) # <<>>

\* the line breaks of a formatted header between its two keywords
HeaderBreaks(kw, condition, endkw) ==
  Breaks(kw.trail \o PrintExpr(condition) \o endkw.lead)

HeaderAsRequired(required, kw, condition, endkw) ==
  IF required
  THEN condition.fmt[1].mode = "hang" /\ HeaderBreaks(kw, condition, endkw) >= 1
  ELSE condition.fmt[1].mode = "single" /\ HeaderBreaks(kw, condition, endkw) = 0

\* C8: the condition of an if, of an elseif arm and of a while hangs exactly
\* when the single-line candidate (keyword, stripped condition, closing
\* keyword, added to the shape) is over the column width, or the leading
\* keyword carries trailing comments, or the closing keyword carries leading
\* comments, or the condition contains comments; the header is on one line
\* when none holds and is split over several lines when one holds.
C8_HangIffRequired ==
  (Formatted /\ in_range /\ InputStmt.kind \in {"If", "While"}) =>
    LET i == InputStmt
        o == ast[1].stmt
    IN IF i.kind = "If"
       THEN /\ HeaderAsRequired(
                 HangRequired(config, InputShape, IfKeywordWidth, ThenKeywordWidth,
                              i.toks.if_token, remove_condition_parentheses(i.condition),
                              i.toks.then_token),
                 o.toks.if_token, o.condition, o.toks.then_token)
            /\ Len(o.else_if) = Len(i.else_if)
            /\ \A n \in DOMAIN i.else_if :
                 HeaderAsRequired(
                   HangRequired(config, ShapeReset(InputShape), ElseIfKeywordWidth,
                                ThenKeywordWidth, i.else_if[n].toks.else_if_token,
                                remove_condition_parentheses(i.else_if[n].condition),
                                i.else_if[n].toks.then_token),
                   o.else_if[n].toks.else_if_token, o.else_if[n].condition,
                   o.else_if[n].toks.then_token)
       ELSE HeaderAsRequired(
              HangRequired(config, InputShape, WhileKeywordWidth, DoKeywordWidth,
                           i.toks.while_token, remove_condition_parentheses(i.condition),
                           i.toks.do_token),
              o.toks.while_token, o.condition, o.toks.do_token)

\* an if whose condition hangs for its width alone, one whose condition
\* hangs for a comment before then alone, or one that stays on one line
C8_Witness ==
  /\ Formatted /\ in_range /\ InputStmt.kind = "If"
  /\ CommentsOf(InputStmt.toks.if_token.trail) = <<>>
  /\ CommentsOf(InputStmt.toks.then_token.lead) = <<>>
  /\ ExprComments(InputStmt.condition) = <<>>
  /\ InputStmt.condition.width = LongWidth
  /\ config = ConfigDefault
  /\ ast[1].stmt.condition.fmt[1].mode = "hang"
  /\ HeaderBreaks(ast[1].stmt.toks.if_token, ast[1].stmt.condition,
                  ast[1].stmt.toks.then_token) >= 1

\* C9: the condition an if, an elseif, a while or a repeat-until is formatted
\* with has no enclosing parentheses left, whatever their depth and whatever
\* the width, and remove_condition_parentheses leaves its own result alone.
C9_ParenthesesStripped ==
  (Formatted /\ in_range /\ InputStmt.kind \in {"If", "While", "Repeat"}) =>
    /\ ast[1].stmt.condition.wraps = <<>>
    /\ \A n \in DOMAIN ast[1].stmt.else_if : ast[1].stmt.else_if[n].condition.wraps = <<>>
    /\ remove_condition_parentheses(remove_condition_parentheses(InputStmt.condition))
         = remove_condition_parentheses(InputStmt.condition)

\* C10: a statement outside the range gets exactly the result of
\* format_stmt_block and no per-kind formatter runs; a statement inside it
\* gets exactly the formatter of its kind; the kind is kept in both paths;
\* a kind outside the dispatch set aborts the call in both paths, and so
\* does a statement outside the range on which format_stmt_block aborts.
C10_Dispatch ==
  Took("format") =>
    IF InputStmt.kind \notin DispatchKinds(ctx_features)
    THEN ~Formatted /\ result = ResultPanic
    ELSE IF in_range
         THEN /\ Formatted
              /\ ast[1].stmt.kind = InputStmt.kind
              /\ ran = <<Formatter(InputStmt.kind)>>
              /\ ast[1].stmt =
                   RunFormatter(Formatter(InputStmt.kind), config, InputStmt,
                                InputShape).node
         ELSE /\ ran = <<"format_stmt_block">>
              /\ IF format_stmt_block(ctx_features, InputStmt, InputShape).tag = "ok"
                 THEN /\ Formatted
                      /\ ast[1].stmt.kind = InputStmt.kind
                      /\ ast[1].stmt =
                           format_stmt_block(ctx_features, InputStmt, InputShape).node
                 ELSE ~Formatted /\ result = ResultPanic

\* a statement outside the range went through format_stmt_block: its tokens
\* are untouched and its block is formatted
C10_Witness ==
  /\ Took("format") /\ Formatted /\ ~in_range
  /\ InputStmt.kind = "While"
  /\ ran = <<"format_stmt_block">>
  /\ ast[1].stmt.toks = InputStmt.toks
  /\ ast[1].stmt.block.fmt # <<>>

\* a block and an expression without what a block formatter left on them
ClearBlock(b) == [b EXCEPT !.fmt = <<>>]
ClearExpr(e) == [e EXCEPT !.body = [i \in DOMAIN @ |-> ClearBlock(@[i])]]
\* a statement without what a block formatter left on the blocks in it
OwnPart(stmt) ==
  [stmt EXCEPT
     !.block = ClearBlock(@),
     !.else_if = [i \in DOMAIN @ |->
                    [@[i] EXCEPT !.block = ClearBlock(@), !.condition = ClearExpr(@)]],
     !.else_block = [i \in DOMAIN @ |-> ClearBlock(@[i])],
     !.condition = ClearExpr(@),
     !.step = [i \in DOMAIN @ |-> ClearExpr(@[i])],
     !.values = [i \in DOMAIN @ |-> ClearExpr(@[i])],
     !.targets = [i \in DOMAIN @ |-> ClearExpr(@[i])]]

\* C11: a statement outside the range comes back with its own tokens and
\* trivia as they were: keywords, condition (parentheses and comments
\* included), lists, elseif arms in number and order, else and end tokens;
\* only the blocks in it, and the blocks inside its expressions, may differ.
C11_RangeLimitedFrame ==
  (~in_range /\ Formatted) => OwnPart(ast[1].stmt) = InputStmt

\* an if outside the range, with a comment after if and a parenthesized
\* condition, whose block was formatted
C11_Witness ==
  /\ ~in_range /\ Formatted /\ InputStmt.kind = "If"
  /\ CommentsOf(InputStmt.toks.if_token.trail) # <<>>
  /\ ParenCount(InputStmt.condition) = MaxParenDepth
  /\ ast[1].stmt.block.fmt # <<>>
  /\ ast[1].stmt.condition = InputStmt.condition
  /\ ast[1].stmt.toks = InputStmt.toks

\* whether the block formatter was given every function body of an expression
BodiesFormatted(e) == \A i \in DOMAIN e.body : e.body[i].fmt # <<>>

\* C12: for a statement outside the range every block the statement owns is
\* given to the block formatter: its own blocks, and the function bodies
\* inside its expressions, wherever the expression stands (the values and
\* the targets of an assignment, a call statement, the condition of an if,
\* an elseif, a while or a repeat-until, the header of a for loop).
C12_EveryBlockReached ==
  (~in_range /\ Formatted) =>
    LET o == ast[1].stmt
    IN /\ o.kind \in BlockKinds => o.block.fmt # <<>>
       /\ \A i \in DOMAIN o.else_if :
            o.else_if[i].block.fmt # <<>> /\ BodiesFormatted(o.else_if[i].condition)
       /\ \A i \in DOMAIN o.else_block : o.else_block[i].fmt # <<>>
       /\ BodiesFormatted(o.condition)
       /\ \A i \in DOMAIN o.step : BodiesFormatted(o.step[i])
       /\ \A i \in DOMAIN o.values : BodiesFormatted(o.values[i])
       /\ \A i \in DOMAIN o.targets : BodiesFormatted(o.targets[i])

\* b is a with the field f set to v and every other field as in a
DiffersIn(a, b, f, v) ==
  /\ DOMAIN b = DOMAIN a
  /\ b[f] = v
  /\ \A g \in DOMAIN a \ {f} : b[g] = a[g]

\* C13: Config::new() and Config::default() are column width 120, Unix line
\* endings, tabs, indent width 4, AutoPreferDouble, no_call_parentheses
\* false, comma separators, no extra separator at the table end, extra
\* spaces inside a table, no extra space in an empty table; and each builder,
\* on every Config a caller can have built, changes the field it names and
\* no other.
C13_ConfigDefaultsAndBuilders ==
  /\ Config_new = ConfigDefault
  /\ ConfigDefault =
       [column_width |-> 120, line_endings |-> "Unix", indent_type |-> "Tabs",
        indent_width |-> 4, quote_style |-> "AutoPreferDouble",
        no_call_parentheses |-> FALSE, table_sep |-> "Comma",
        extra_sep_at_table_end |-> FALSE, extra_spaces_inside_table |-> TRUE,
        extra_space_in_empty_table |-> FALSE]
  /\ steps = <<>> /\ pc = "config" => config \in
       [column_width : {DefaultColumnWidth, NarrowColumnWidth},
        line_endings : LineEndingsKinds, indent_type : IndentTypes,
        indent_width : {DefaultIndentWidth, NarrowIndentWidth},
        quote_style : QuoteStyles, no_call_parentheses : BOOLEAN,
        table_sep : TableSeparatorsKinds, extra_sep_at_table_end : BOOLEAN,
        extra_spaces_inside_table : BOOLEAN, extra_space_in_empty_table : BOOLEAN]
  /\ \A v \in {DefaultColumnWidth, NarrowColumnWidth} :
       DiffersIn(config, with_column_width(config, v), "column_width", v)
  /\ \A v \in LineEndingsKinds :
       DiffersIn(config, with_line_endings(config, v), "line_endings", v)
  /\ \A v \in IndentTypes : DiffersIn(config, with_indent_type(config, v), "indent_type", v)
  /\ \A v \in {DefaultIndentWidth, NarrowIndentWidth} :
       DiffersIn(config, with_indent_width(config, v), "indent_width", v)
  /\ \A v \in QuoteStyles : DiffersIn(config, with_quote_style(config, v), "quote_style", v)
  /\ \A v \in TableSeparatorsKinds :
       DiffersIn(config, with_table_sep(config, v), "table_sep", v)
  /\ \A v \in BOOLEAN :
       /\ DiffersIn(config, with_no_call_parentheses(config, v), "no_call_parentheses", v)
       /\ DiffersIn(config, with_extra_sep_at_table_end(config, v),
                    "extra_sep_at_table_end", v)
       /\ DiffersIn(config, with_extra_spaces_inside_table(config, v),
                    "extra_spaces_inside_table", v)
       /\ DiffersIn(config, with_extra_space_in_empty_table(config, v),
                    "extra_space_in_empty_table", v)

\* a Config on which every builder has set a value other than the default
C13_Witness ==
  /\ pc = "config"
  /\ \A f \in DOMAIN config : config[f] # ConfigDefault[f]

\* C14: the condition of a repeat-until hangs exactly when "until " and the
\* stripped condition, added to the shape, are over the column width, or the
\* until keyword carries trailing comments, or the condition contains a
\* comment; otherwise the condition stands on the line of until and is
\* followed by one newline.
C14_RepeatHangRule ==
  (Formatted /\ in_range /\ InputStmt.kind = "Repeat") =>
    LET i == InputStmt
        o == ast[1].stmt
        condition == remove_condition_parentheses(i.condition)
        required ==
          \/ IndentLevels(InputShape) * config.indent_width + InputShape.offset
               + UntilKeywordWidth + StrippedLen(condition) > config.column_width
          \/ CommentsOf(i.toks.until_token.trail) # <<>>
          \/ ExprComments(condition) # <<>>
    IN IF required
       THEN o.condition.fmt[1].mode = "hang"
       ELSE /\ o.condition.fmt[1].mode = "single"
            /\ Breaks(o.toks.until_token.trail \o o.condition.lead) = 0
            /\ o.condition.trail = <<NewlineTrivia>>

\* the last item of a sequence of trivia
LastItem(items) == items[Len(items)]
\* whether the token that carries the leading trivia lead starts a line
\* with the indentation of the given number of levels
StartsLine(lead, levels) ==
  /\ lead # <<>>
  /\ LastItem(lead) = IndentTrivia(levels)
  /\ Len(lead) > 1 => IsNewline(lead[Len(lead) - 1])

\* the hung layout of one formatted header at the shape of its statement
HungLayout(shape, kw, condition, endkw) ==
  /\ kw.trail # <<>> /\ IsNewline(LastItem(kw.trail))
  /\ \A n \in DOMAIN kw.trail : kw.trail[n] # SpaceTrivia
  /\ condition.fmt =
       <<[mode |-> "hang", shape |-> increment_additional_indent(ShapeReset(shape))]>>
  /\ condition.lead = <<IndentTrivia(IndentLevels(shape) + 1)>>
  /\ condition.trail = <<NewlineTrivia>>
  /\ StartsLine(kw.lead, IndentLevels(shape))
  /\ StartsLine(endkw.lead, IndentLevels(shape))
  /\ endkw.trail # <<>> /\ IsNewline(LastItem(endkw.trail))

\* the single-line layout of one formatted header
SingleLayout(shape, kwWidth, kw, condition, endkw) ==
  /\ kw.trail = <<SpaceTrivia>>
  /\ condition.fmt = <<[mode |-> "single", shape |-> ShapeAdd(shape, kwWidth)]>>
  /\ condition.lead = <<>> /\ condition.trail = <<>>
  /\ endkw.lead = <<SpaceTrivia>>
  /\ endkw.trail # <<>> /\ IsNewline(LastItem(endkw.trail))
  /\ Breaks(endkw.trail) = 1

HeaderLayout(required, shape, kwWidth, kw, condition, endkw) ==
  IF required
  THEN HungLayout(shape, kw, condition, endkw)
  ELSE SingleLayout(shape, kwWidth, kw, condition, endkw)

\* C15: when the condition of an if, of an elseif arm or of a while must
\* hang, the leading keyword is followed by a newline and by no space, the
\* condition starts a line of its own at one additional indent level over
\* the statement (width reset, additional indent incremented), and then/do
\* starts a line of its own with the indentation of the leading keyword and
\* is followed by a newline; when it need not hang the tokens are the
\* single-line renderings: keyword and space, condition, space and then/do,
\* followed by a newline.
C15_HungLayout ==
  (Formatted /\ in_range /\ InputStmt.kind \in {"If", "While"}) =>
    LET i == InputStmt
        o == ast[1].stmt
    IN IF i.kind = "If"
       THEN /\ HeaderLayout(
                 HangRequired(config, InputShape, IfKeywordWidth, ThenKeywordWidth,
                              i.toks.if_token, remove_condition_parentheses(i.condition),
                              i.toks.then_token),
                 InputShape, IfConditionOffset,
                 o.toks.if_token, o.condition, o.toks.then_token)
            /\ \A n \in DOMAIN i.else_if :
                 HeaderLayout(
                   HangRequired(config, ShapeReset(InputShape), ElseIfKeywordWidth,
                                ThenKeywordWidth, i.else_if[n].toks.else_if_token,
                                remove_condition_parentheses(i.else_if[n].condition),
                                i.else_if[n].toks.then_token),
                   InputShape, ElseIfKeywordWidth,
                   o.else_if[n].toks.else_if_token, o.else_if[n].condition,
                   o.else_if[n].toks.then_token)
       ELSE HeaderLayout(
              HangRequired(config, InputShape, WhileKeywordWidth, DoKeywordWidth,
                           i.toks.while_token, remove_condition_parentheses(i.condition),
                           i.toks.do_token),
              InputShape, WhileKeywordWidth,
              o.toks.while_token, o.condition, o.toks.do_token)

\* a while one level deep whose condition hangs for the comment before do,
\* which stands on a line of its own in front of do
C15_Witness ==
  /\ Formatted /\ in_range /\ InputStmt.kind = "While"
  /\ code.tree.level = MaxLevel
  /\ CommentsOf(InputStmt.toks.do_token.lead) # <<>>
  /\ CommentsOf(InputStmt.toks.while_token.trail) = <<>>
  /\ ast[1].stmt.toks.while_token.trail = <<NewlineTrivia>>
  /\ ast[1].stmt.condition.fmt[1].mode = "hang"
  /\ Len(ast[1].stmt.toks.do_token.lead) > 1
  /\ LastItem(ast[1].stmt.toks.do_token.lead) = IndentTrivia(MaxLevel)

\* whether the keyword token has the indentation of the shape as the last of
\* its leading trivia
IndentedAs(tok, shape) ==
  tok.lead # <<>> /\ LastItem(tok.lead) = IndentTrivia(IndentLevels(shape))
\* whether the trivia end in a newline
EndsLine(trail) == trail # <<>> /\ IsNewline(LastItem(trail))
\* whether the block was formatted one block level below the shape, the used
\* width reset
NestedOneDeeper(block, shape) ==
  block.fmt = <<[indent_level |-> shape.indent_level + 1,
                 additional_indent |-> shape.additional_indent, offset |-> 0]>>
\* the names of the leading keyword and of the token that ends the header
\* line of a block-owning statement
LeadingKeyword(kind) ==
  CASE kind = "Do" -> "do_token"
    [] kind \in {"GenericFor", "NumericFor"} -> "for_token"
    [] kind = "If" -> "if_token"
    [] kind = "Repeat" -> "repeat_token"
    [] kind = "While" -> "while_token"
HeaderEnd(kind) ==
  CASE kind \in {"Do", "GenericFor", "NumericFor", "While"} -> "do_token"
    [] kind = "If" -> "then_token"
    [] kind = "Repeat" -> "repeat_token"

\* the statements whose formatter is one of the block-owning formatters of
\* stmt.rs
BlockOwners == {"Do", "GenericFor", "If", "NumericFor", "Repeat", "While"}

\* C16: do, generic for, numeric for, if with its elseif and else arms,
\* repeat and while format every block of theirs at the statement's shape
\* with the used width reset and the block indent level one higher; the
\* leading keyword has the statement's indentation as leading trivia; end
\* (until for a repeat) and every elseif and else keyword have the same
\* indentation; and each of these lines ends in a newline, whether the
\* header hangs or not.
C16_BlockIndentation ==
  (Formatted /\ in_range /\ InputStmt.kind \in BlockOwners) =>
    LET o == ast[1].stmt
        shape == InputShape
    IN /\ NestedOneDeeper(o.block, shape)
       /\ IndentedAs(o.toks[LeadingKeyword(o.kind)], shape)
       /\ EndsLine(o.toks[HeaderEnd(o.kind)].trail)
       /\ IF o.kind = "Repeat"
          THEN /\ IndentedAs(o.toks.until_token, shape)
               /\ EndsLine(o.condition.trail)
          ELSE /\ IndentedAs(o.toks.end_token, shape)
               /\ EndsLine(o.toks.end_token.trail)
       /\ Len(o.else_if) = Len(InputStmt.else_if)
       /\ \A n \in DOMAIN o.else_if :
            /\ NestedOneDeeper(o.else_if[n].block, shape)
            /\ IndentedAs(o.else_if[n].toks.else_if_token, shape)
            /\ EndsLine(o.else_if[n].toks.then_token.trail)
       /\ Len(o.else_block) = Len(InputStmt.else_block)
       /\ \A n \in DOMAIN o.else_block :
            /\ NestedOneDeeper(o.else_block[n], shape)
            /\ IndentedAs(o.toks.else_token, shape)
            /\ EndsLine(o.toks.else_token.trail)

\* an if one level deep with an elseif arm whose header hangs and an else
\* arm, all three blocks formatted two levels deep
C16_Witness ==
  /\ Formatted /\ in_range /\ InputStmt.kind = "If"
  /\ code.tree.level = MaxLevel
  /\ Len(ast[1].stmt.else_if) = MaxArms
  /\ ast[1].stmt.else_if[1].condition.fmt[1].mode = "hang"
  /\ ast[1].stmt.else_if[1].block.fmt = <<ShapeNew(MaxLevel + 1)>>
  /\ ast[1].stmt.else_block # <<>>
  /\ ast[1].stmt.block.fmt = <<ShapeNew(MaxLevel + 1)>>
  /\ ast[1].stmt.else_block[1].fmt = <<ShapeNew(MaxLevel + 1)>>
  /\ LastItem(ast[1].stmt.toks.else_token.lead) = IndentTrivia(MaxLevel)

\* C17: format_if gives as many elseif arms as it was given, arm n of the
\* result being arm n of the input formatted by format_else_if; with an else
\* token and an else block both come back formatted, with neither there is
\* neither; with one of the two and not the other the call aborts and there
\* is no output tree.
C17_ChainedConditional ==
  (pc = "done" /\ ran = <<"format_if">>) =>
    LET i == InputStmt
    IN IF Has(i, "else_token") <=> i.else_block # <<>>
       THEN /\ Formatted /\ result = NoResult
            /\ Len(ast[1].stmt.else_if) = Len(i.else_if)
            /\ \A n \in DOMAIN i.else_if :
                 ast[1].stmt.else_if[n] = format_else_if(config, i.else_if[n], InputShape)
            /\ Has(ast[1].stmt, "else_token") <=> Has(i, "else_token")
            /\ Len(ast[1].stmt.else_block) = Len(i.else_block)
            /\ Has(i, "else_token") =>
                 /\ ast[1].stmt.toks.else_token =
                      update_trivia(format_end_token(i.toks.else_token, InputShape),
                                    <<create_indent_trivia(InputShape)>>, <<NewlineTrivia>>)
                 /\ ast[1].stmt.else_block =
                      <<format_block(i.else_block[1],
                                     increment_block_indent(ShapeReset(InputShape)))>>
       ELSE ~Formatted /\ result = ResultPanic

\* a conditional with two different elseif arms, an else token and no else
\* block was handed to format_if, which aborted
C17_Witness ==
  /\ pc = "done" /\ ran = <<"format_if">>
  /\ Len(InputStmt.else_if) = MaxChain
  /\ InputStmt.else_if[1] # InputStmt.else_if[MaxChain]
  /\ Has(InputStmt, "else_token") /\ InputStmt.else_block = <<>>
  /\ ~Formatted /\ result = ResultPanic

\* C18 as stated: in the descent outside the range a node of a kind without
\* an arm of its own comes back unchanged and the descent does not fail on
\* it, whether the node is a statement or lies in an expression.
C18_UnhandledUnchanged ==
  (~in_range /\ Took("format")) =>
    /\ InputStmt.kind \notin DispatchKinds(ctx_features) =>
         Formatted /\ ast[1].stmt = InputStmt
    /\ Descended(InputStmt, ctx_features) =>
         \A i \in DOMAIN InputStmt.values :
           Unhandled(InputStmt.values[i]) # {} =>
             Formatted /\ ast[1].stmt.values[i] = InputStmt.values[i]

\* C18: in the descent outside the range a Value, a FunctionArgs or an Index
\* of a kind without an arm of its own comes back unchanged, with all that
\* lies in it; a Stmt, an Expression, a Prefix, a Call, a Suffix or a Field
\* of such a kind aborts the call and no tree comes back.
C18_UnhandledKinds ==
  (~in_range /\ Took("format")) =>
    /\ InputStmt.kind \notin DispatchKinds(ctx_features) =>
         ~Formatted /\ result = ResultPanic
    /\ Descended(InputStmt, ctx_features) =>
         \A i \in DOMAIN InputStmt.values :
           LET e == InputStmt.values[i]
           IN Unhandled(e) # {} =>
                IF e.wraps[FirstUnhandled(e)].t \in AbortingLayers
                THEN ~Formatted /\ result = ResultPanic
                ELSE Formatted /\ ast[1].stmt.values[i] = e

\* the value of an assignment outside the range is a binary operation over
\* an expression of an unknown kind, and the call aborted
C18_Witness ==
  /\ ~in_range /\ Took("format")
  /\ InputStmt.kind = "Assignment" /\ InputStmt.values # <<>>
  /\ Len(InputStmt.values[1].wraps) = 2
  /\ InputStmt.values[1].wraps[1].t = "Binary"
  /\ InputStmt.values[1].wraps[2].t = "OtherExpression"
  /\ ~Formatted /\ result = ResultPanic

\* the steps of a call under Full verification, in their order
FullOrder == <<"parse", "snapshot", "format", "print", "reparse", "compare">>

\* C19: under Full verification the steps a call has taken are the first
\* steps of parse, snapshot, format, print, reparse, compare; the snapshot
\* is there when the formatter runs and is the tree parsed from the input,
\* not the formatted tree; and the comparison is that of the snapshot with
\* the tree reparsed from the printed text.
C19_PipelineOrder ==
  verify_output = "Full" =>
    /\ Len(steps) <= Len(FullOrder)
    /\ steps = SubSeq(FullOrder, 1, Len(steps))
    /\ input_ast_for_verification # <<>> <=> Took("snapshot")
    /\ Took("snapshot") => input_ast_for_verification = <<code.tree>>
    /\ Took("format") => input_ast_for_verification = <<code.tree>>
    /\ Took("reparse") /\ reparsed_output # <<>> =>
         reparsed_output = <<full_moon_parse(ast[1], output[1]).tree>>
    /\ Took("compare") <=> compared # "none"
    /\ Took("compare") =>
         (compared = "equal" <=>
            compare(code.tree, full_moon_parse(ast[1], full_moon_print(ast[1])).tree))
    /\ result.tag = "Ok" => steps = FullOrder

\* a Full call went through all six steps on a statement the formatter
\* changed, the snapshot still being the parsed tree
C19_Witness ==
  /\ verify_output = "Full" /\ Done /\ steps = FullOrder
  /\ ast[1] # code.tree
  /\ input_ast_for_verification = <<code.tree>>
  /\ compared = "equal" /\ result.tag = "Ok"

\* what the formatter makes of the input of the call, and the text printed
\* from it: neither depends on the verification asked for
FormatterResult == CodeFormatterFormat(Ctx, code.tree)
PrintedText == full_moon_print(FormatterResult.tree)
\* a call without verification takes no snapshot, reparses nothing and
\* compares nothing, and ends with neither verification error
NoVerificationSteps ==
  /\ ~Took("snapshot") /\ ~Took("reparse") /\ ~Took("compare")
  /\ input_ast_for_verification = <<>> /\ reparsed_output = <<>> /\ compared = "none"
  /\ result # ResultErr("VerificationAstError")
  /\ result # ResultErr("VerificationAstDifference")

IsIndent(i) == i.k = "indent"
Indents(items) == Len(SelectSeq(items, IsIndent))

\* C21: in a generic for the comments of the name list and then those of the
\* expression list are taken off the lists and appended, in this order, to
\* the trailing trivia of the do token, behind the do token's own comments,
\* and one newline, the only one, follows them; the end token gets one
\* indentation trivia in front and one newline behind.
C21_GenericForFlush ==
  (Formatted /\ in_range /\ InputStmt.kind = "GenericFor") =>
    LET i == InputStmt
        o == ast[1].stmt
    IN /\ o.toks.do_token.trail =
            CommentsOf(i.toks.do_token.trail) \o CommentsOf(i.names.cmts)
              \o CommentsOf(i.expressions.cmts) \o <<NewlineTrivia>>
       /\ Breaks(o.toks.do_token.trail) = 1
       /\ o.names.cmts = <<>> /\ o.expressions.cmts = <<>>
       /\ o.toks.end_token.lead =
            format_end_token(i.toks.end_token, InputShape).lead
              \o <<IndentTrivia(IndentLevels(InputShape))>>
       /\ Indents(o.toks.end_token.lead) = 1 + Len(CommentsOf(i.toks.end_token.lead))
       /\ o.toks.end_token.trail = CommentsOf(i.toks.end_token.trail) \o <<NewlineTrivia>>
       /\ Breaks(o.toks.end_token.trail) = 1

\* a generic for one level deep with a comment in the name list, one in the
\* expression list and one behind do, all three behind do in the result
C21_Witness ==
  /\ Formatted /\ in_range /\ InputStmt.kind = "GenericFor"
  /\ code.tree.level = MaxLevel
  /\ CommentsOf(InputStmt.names.cmts) # <<>>
  /\ CommentsOf(InputStmt.expressions.cmts) # <<>>
  /\ CommentsOf(InputStmt.toks.do_token.trail) # <<>>
  /\ Len(ast[1].stmt.toks.do_token.trail) = 4
  /\ ast[1].stmt.toks.end_token.trail = <<NewlineTrivia>>

\* the length of the text of a keyword
SymbolWidth(sym) ==
  CASE sym = "if" -> 2
    [] sym = "elseif" -> 6
    [] sym = "while" -> 5
    [] sym = "then" -> 4
    [] sym = "do" -> 2
IsSpace(i) == i.k = "sp"
\* the length of the text a keyword token of a single-line header emits: the
\* keyword and the spaces next to it
EmittedWidth(tok) ==
  SymbolWidth(tok.sym) + Len(SelectSeq(tok.lead \o tok.trail, IsSpace))
\* the width the code accounts for one formatted header: kw, condition and
\* endkw are the formatted tokens, stripped the condition before formatting
\* with its parentheses removed, plain whether the header has no comment
WidthAccounted(shape, plain, kw, condition, stripped, endkw) ==
  /\ condition.fmt[1].mode = "single" =>
       /\ condition.fmt[1].shape = ShapeAdd(shape, EmittedWidth(kw))
       /\ IndentLevels(shape) * config.indent_width + shape.offset + EmittedWidth(kw)
            + StrippedLen(stripped) + EmittedWidth(endkw) <= config.column_width
  /\ (plain /\ condition.fmt[1].mode = "hang") =>
       IndentLevels(shape) * config.indent_width + shape.offset
         + (SymbolWidth(kw.sym) + 1) + StrippedLen(stripped)
         + (SymbolWidth(endkw.sym) + 1) > config.column_width
PlainHeader(kw, condition, endkw) ==
  /\ CommentsOf(kw.trail) = <<>> /\ CommentsOf(endkw.lead) = <<>>
  /\ ExprComments(condition) = <<>>

\* C22: in an if, an elseif arm and a while the single-line condition is
\* formatted at the shape advanced by the length of the keyword text in
\* front of it ("if ", "elseif ", "while "), and the width tested against
\* the column width is the length of that text, of the stripped condition
\* and of the closing keyword text (" then", " do").
C22_WidthAccounting ==
  (Formatted /\ in_range /\ InputStmt.kind \in {"If", "While"}) =>
    LET i == InputStmt
        o == ast[1].stmt
    IN IF i.kind = "If"
       THEN /\ WidthAccounted(
                 InputShape,
                 PlainHeader(i.toks.if_token, remove_condition_parentheses(i.condition),
                             i.toks.then_token),
                 o.toks.if_token, o.condition,
                 remove_condition_parentheses(i.condition), o.toks.then_token)
            /\ \A n \in DOMAIN i.else_if :
                 WidthAccounted(
                   ShapeReset(InputShape),
                   PlainHeader(i.else_if[n].toks.else_if_token,
                               remove_condition_parentheses(i.else_if[n].condition),
                               i.else_if[n].toks.then_token),
                   o.else_if[n].toks.else_if_token, o.else_if[n].condition,
                   remove_condition_parentheses(i.else_if[n].condition),
                   o.else_if[n].toks.then_token)
       ELSE WidthAccounted(
              InputShape,
              PlainHeader(i.toks.while_token, remove_condition_parentheses(i.condition),
                          i.toks.do_token),
              o.toks.while_token, o.condition,
              remove_condition_parentheses(i.condition), o.toks.do_token)

====
